---------------------------- MODULE Spec2Model ----------------------------
(***************************************************************************)
(* A model of parts of barney:                                             *)
(*   - Woodcock::sampleRange and Volume::DD::sampleAndMap (Volume.h),      *)
(*   - the ANARI spatial-field objects (anari/SpatialField.{h,cpp}):       *)
(*     commitParameters / finalize / isValid / bounds /                    *)
(*     getBarneyScalarField / cleanup / destruction of the five variants,  *)
(*   - the planet and cloud samplers (volume/PlanetField.h, CloudField.h), *)
(*   - ModelSlot's per-device instance groups (ModelSlot.cpp),             *)
(*   - the tether's reference-counted models (BarneyGlobalState.cpp),      *)
(*   - IsoSurface and its accel (geometry/IsoSurface.cpp),                 *)
(*   - the device buffers of rtcore/optix (DeviceBuffer.h, Denoiser.cpp),  *)
(*   - the denoiser's blend factor (common/DenoiserConfig.h).              *)
(***************************************************************************)
EXTENDS Integers, Sequences, FiniteSets, TLC

VARIABLES
    \* ---- Woodcock::sampleRange (one call) ----
    wc_pc,        \* "call" | "loop" | "ret"
    wc_t,         \* local float t
    wc_tRange,    \* [lower, upper]: the range1f passed by reference
    wc_tRange0,   \* the caller's tRange at the time of the call
    wc_majorant,  \* the majorant argument
    wc_sample,    \* the vec4f passed by reference
    wc_ret,       \* "none" | "true" | "false": the value returned
    wc_steps,     \* loop iterations started so far
    wc_f,         \* scalar returned by sfSampler.sample in the last iteration
    wc_at,        \* t of the point org+t*dir at which wc_sample was taken
    \* ---- one SpatialField object ----
    sf_kind,      \* subtype given to SpatialField::createInstance
    sf_life,      \* "new" | "live" | "destroyed" | "crashed" | "exited"
    sf_m,         \* the object's data members
    sf_bnField,   \* SpatialField::m_bnField (0 = null, else a backend handle)
    sf_backend,   \* the backend scalar fields created so far
    sf_msgs,      \* diagnostics reported by the most recent finalize
    sf_fin,       \* how the most recent finalize ended: "none"|"rejected"|"completed"
    sf_last,      \* the most recent call on the object and what it did
    sf_ub,        \* some call has executed undefined behaviour
    sf_params,    \* the object's parameter store, as the client last set it
    sf_dirty,     \* commitParameters has run and finalize has not yet followed
    \* ---- one call of PlanetSampler::DD::sample or CloudSampler::DD::sample ----
    sm_kind,      \* "planet" | "cloud": whose sampler is called
    sm_cfg,       \* the field's parameters, as configured through the API
    sm_P,         \* the point P passed to sample
    sm_pc,        \* "call" | "done" | "crashed"
    sm_ret,       \* the float returned
    sm_fetches,   \* texture fetches the call has made
    \* ---- one ModelSlot and the devices of its DevGroup ----
    ms_life,       \* "live" once constructed
    ms_numLogical, \* DevGroup::numLogical
    ms_devices,    \* the DevGroup: per device its contextRank and sbtDirty
    ms_perLogical, \* ModelSlot::perLogical: per slot its instanceGroup
    ms_rtc,        \* the instance groups the rtc devices have created so far
    ms_instances,  \* ModelSlot::instances.groups
    ms_last,        \* the most recent call on the slot
    \* ---- one Tether and the threads calling it ----
    te_activeModels, \* Tether::activeModels: id -> (present, first = count, second)
    te_models, \* the models bnModelCreate has made, with their bnRelease count
    te_mutex, \* Tether::mutex: 0 when free, else the thread holding it
    te_pc, \* each thread's position in its call
    te_id, \* each thread's uniqueID argument (1 between calls)
    te_owed, \* per id, references handed out whose release has not been called
    te_unmatched, \* some releaseModel was called with no reference to give back
    \* ---- one IsoSurface ----
    is_life, \* the IsoSurface: "live" | "crashed"
    is_sf, \* IsoSurface::sf: 0 when null, else the scalar field set
    is_accel, \* IsoSurface::accel: Null, or the field that created it and its builds
    is_last, \* the most recent call on the iso-surface
    \* ---- one DeviceBuffer and the device memory ----
    db_life, \* the DeviceBuffer: "live" | "destroyed"
    db_ptr, \* DeviceBuffer::m_ptr: 0 when null, else the device allocation
    db_bytes, \* DeviceBuffer::m_bytes
    db_mem, \* the device allocations Malloc has made: their size and Free count
    db_oob, \* some Memcpy went outside the allocation it was given
    db_last, \* the most recent call on the buffer
    \* ---- one Optix8Denoiser and the device memory ----
    dn_life, \* the Optix8Denoiser: "live" | "destroyed"
    dn_p, \* its six buffer pointers, 0 when null, else a device allocation
    dn_mem, \* the device allocations Malloc has made, with their Free count
    dn_pixelBuffer, \* Optix8Denoiser::m_pixelBuffer: 0 when null, else the caller's buffer
    dn_format, \* Optix8Denoiser::m_format
    dn_last, \* the most recent call on the denoiser
    \* ---- one call of calculateBlendFactor ----
    bf_pc, \* "call" | "calculated" | "validated"
    bf_accumID, \* the accumID passed to calculateBlendFactor
    bf_blendFactor, \* the float returned, as the fraction <<numerator, denominator>>
    bf_valid \* what isValidBlendFactor returned for it

wc_vars == <<wc_pc, wc_t, wc_tRange, wc_tRange0, wc_majorant, wc_sample,
             wc_ret, wc_steps, wc_f, wc_at>>
sf_vars == <<sf_kind, sf_life, sf_m, sf_bnField, sf_backend, sf_msgs,
             sf_fin, sf_last, sf_ub, sf_params, sf_dirty>>
sm_vars == <<sm_kind, sm_cfg, sm_P, sm_pc, sm_ret, sm_fetches>>
ms_vars == <<ms_life, ms_numLogical, ms_devices, ms_perLogical, ms_rtc,
             ms_instances, ms_last>>
te_vars == <<te_activeModels, te_models, te_mutex, te_pc, te_id, te_owed,
             te_unmatched>>

is_vars == <<is_life, is_sf, is_accel, is_last>>

db_vars == <<db_life, db_ptr, db_bytes, db_mem, db_oob, db_last>>

dn_vars == <<dn_life, dn_p, dn_mem, dn_pixelBuffer, dn_format, dn_last>>

bf_vars == <<bf_pc, bf_accumID, bf_blendFactor, bf_valid>>

vars == <<wc_vars, sf_vars, sm_vars, ms_vars, te_vars, is_vars, db_vars, dn_vars, bf_vars>>

(***************************************************************************)
(* IEEE-754 floats.  A finite float is Fin(n), n counting quarters         *)
(* (Fin(6) is 1.5); NaN and the two infinities are values of their own.    *)
(***************************************************************************)
Fin(n) == <<"fin", n>>
NaN == <<"nan", 0>>
PInf == <<"inf", 1>>
NInf == <<"inf", -1>>

IsNaN(a) == a[1] = "nan"
IsInf(a) == a[1] = "inf"
Sgn(n) == IF n > 0 THEN 1 ELSE IF n < 0 THEN -1 ELSE 0
Abs(n) == IF n < 0 THEN -n ELSE n
\* integer quotient rounded toward zero
TruncDiv(a, b) == Sgn(a) * Sgn(b) * (Abs(a) \div Abs(b))
FSign(a) == Sgn(a[2])
FInfOf(s) == IF s > 0 THEN PInf ELSE NInf

\* a + b
FAdd(a, b) ==
    IF IsNaN(a) \/ IsNaN(b) THEN NaN
    ELSE IF IsInf(a) /\ IsInf(b) THEN (IF a = b THEN a ELSE NaN)
    ELSE IF IsInf(a) THEN a
    ELSE IF IsInf(b) THEN b
    ELSE Fin(a[2] + b[2])

\* a * b
FMul(a, b) ==
    IF IsNaN(a) \/ IsNaN(b) THEN NaN
    ELSE IF IsInf(a) \/ IsInf(b)
         THEN (IF FSign(a) * FSign(b) = 0 THEN NaN ELSE FInfOf(FSign(a) * FSign(b)))
    ELSE Fin(TruncDiv(a[2] * b[2], 4))

\* a / b : x/0 is an infinity, 0/0 and inf/inf are NaN
FDiv(a, b) ==
    IF IsNaN(a) \/ IsNaN(b) THEN NaN
    ELSE IF IsInf(a) THEN (IF IsInf(b) THEN NaN
                           ELSE FInfOf(a[2] * (IF b[2] < 0 THEN -1 ELSE 1)))
    ELSE IF IsInf(b) THEN Fin(0)
    ELSE IF b[2] = 0 THEN (IF a[2] = 0 THEN NaN ELSE FInfOf(a[2]))
    ELSE Fin(TruncDiv(4 * a[2], b[2]))

\* a >= b : false as soon as one side is NaN
FGe(a, b) ==
    IF IsNaN(a) \/ IsNaN(b) THEN FALSE
    ELSE IF a = b THEN TRUE
    ELSE IF IsInf(a) THEN a = PInf
    ELSE IF IsInf(b) THEN b = NInf
    ELSE a[2] >= b[2]

FLt(a, b) == (~IsNaN(a)) /\ (~IsNaN(b)) /\ ~FGe(a, b)

(***************************************************************************)
(* Random::operator(): a uniform float in [0,1), here one of 0, 1/4, 1/2,  *)
(* 3/4.                                                                    *)
(***************************************************************************)
RandVals == {Fin(0), Fin(1), Fin(2), Fin(3)}

\* -logf(1.f - r) for r in RandVals, to the nearest quarter:
\* -ln 1 = 0, -ln 0.75 = 0.29, -ln 0.5 = 0.69, -ln 0.25 = 1.39
NegLog1m(r) ==
    CASE r = Fin(0) -> Fin(0)
      [] r = Fin(1) -> Fin(1)
      [] r = Fin(2) -> Fin(3)
      [] r = Fin(3) -> Fin(6)

(***************************************************************************)
(* Volume::DD::sampleAndMap                                                *)
(***************************************************************************)
Vec4(x, y, z, w) == [x |-> x, y |-> y, z |-> z, w |-> w]
Vec4Zero == Vec4(Fin(0), Fin(0), Fin(0), Fin(0))

\* what sfSampler.sample(P) can return: NaN outside the field's domain
FieldVals == {NaN, Fin(0), Fin(4), Fin(8)}

\* TransferFunction::DD::map: a linear ramp over the domain [0,2], opacity
\* 0 at 0 and 1 at 2, clamped outside
XfMap(f) ==
    LET c == IF f[2] < 0 THEN 0 ELSE IF f[2] > 8 THEN 8 ELSE f[2]
    IN  Vec4(Fin(c), Fin(c), Fin(c), Fin(c \div 2))

sampleAndMap(f) == IF IsNaN(f) THEN Vec4Zero ELSE XfMap(f)

(***************************************************************************)
(* Woodcock::sampleRange                                                   *)
(***************************************************************************)
MaxSteps == 3

Majorants == {Fin(-4), Fin(0), Fin(2), Fin(4), Fin(8)}
Lowers == {Fin(0), Fin(2)}
Uppers == {Fin(4), Fin(8), PInf}

\* float t = tRange.lower;
sampleRange_enter ==
    /\ wc_pc = "call"
    /\ wc_t' = wc_tRange.lower
    /\ wc_pc' = "loop"
    /\ UNCHANGED <<wc_tRange, wc_tRange0, wc_majorant, wc_sample, wc_ret,
                   wc_steps, wc_f, wc_at>>
    /\ UNCHANGED <<sf_vars, sm_vars, ms_vars, te_vars, is_vars, db_vars, dn_vars, bf_vars>>

\* a free-flight step with the sign of the logarithm lost
NextT_MissingMinus(t, r1, majorant) ==
    FAdd(t, FDiv(Fin(-NegLog1m(r1)[2]), majorant))

\* the t reached by one more free-flight step
NextT(t, r1, majorant) == FAdd(t, FDiv(NegLog1m(r1), majorant))

\* the acceptance test of one sample: sample.w >= rand()*majorant
Accepts(sample, r2, majorant) == FGe(sample.w, FMul(r2, majorant))

\* one iteration of while (true): r1, r2 are the two rand() results, f the
\* scalar the field returns at org + t*dir
sampleRange_iter(r1, r2, f) ==
    /\ wc_pc = "loop"
    /\ wc_steps < MaxSteps
    /\ wc_steps' = wc_steps + 1
    /\ LET t == NextT(wc_t, r1, wc_majorant)
           s == sampleAndMap(f)
       IN  /\ wc_t' = t
           /\ IF FGe(t, wc_tRange.upper)
              THEN /\ wc_ret' = "false"
                   /\ wc_pc' = "ret"
                   /\ UNCHANGED <<wc_tRange, wc_sample, wc_f, wc_at>>
              ELSE /\ wc_sample' = s
                   /\ wc_f' = f
                   /\ wc_at' = t
                   /\ IF Accepts(s, r2, wc_majorant)
                      THEN /\ wc_tRange' = [wc_tRange EXCEPT !.upper = t]
                           /\ wc_ret' = "true"
                           /\ wc_pc' = "ret"
                      ELSE UNCHANGED <<wc_tRange, wc_ret, wc_pc>>
    /\ UNCHANGED <<wc_tRange0, wc_majorant>>
    /\ UNCHANGED <<sf_vars, sm_vars, ms_vars, te_vars, is_vars, db_vars, dn_vars, bf_vars>>

wc_Next ==
    \/ sampleRange_enter
    \/ \E r1 \in RandVals, r2 \in RandVals, f \in FieldVals :
           sampleRange_iter(r1, r2, f)


(***************************************************************************)
(* Spatial fields: common definitions                                      *)
(***************************************************************************)
\* an unset parameter / a null IntrusivePtr, and a set one
Null == <<>>
Some(v) == <<v>>
\* getParam<T>(name, default)
getParam(p, default) == IF p = Null THEN default ELSE p[1]

Min(a, b) == IF a <= b THEN a ELSE b
Max(a, b) == IF a >= b THEN a ELSE b
V3(x, y, z) == <<x, y, z>>
V3Add(a, b) == <<a[1] + b[1], a[2] + b[2], a[3] + b[3]>>
V3Mul(a, b) == <<a[1] * b[1], a[2] * b[2], a[3] * b[3]>>
V3Sub1(a, k) == <<a[1] - k, a[2] - k, a[3] - k>>
V3Add1(a, k) == <<a[1] + k, a[2] + k, a[3] + k>>

\* box3: the default-constructed box is empty (lower = +inf, upper = -inf)
EmptyBox == [e |-> TRUE, lower |-> V3(0, 0, 0), upper |-> V3(0, 0, 0)]
Box(lo, hi) == [e |-> FALSE, lower |-> lo, upper |-> hi]
\* box3::insert(point)
BoxInsert(b, p) ==
    IF b.e THEN Box(p, p)
    ELSE Box(<<Min(b.lower[1], p[1]), Min(b.lower[2], p[2]), Min(b.lower[3], p[3])>>,
             <<Max(b.upper[1], p[1]), Max(b.upper[2], p[2]), Max(b.upper[3], p[3])>>)
\* box3::insert(box): lower = min(lower, o.lower), upper = max(upper, o.upper)
BoxExtend(b, o) ==
    IF b.e THEN Box(o.lower, o.upper)
    ELSE Box(<<Min(b.lower[1], o.lower[1]), Min(b.lower[2], o.lower[2]),
               Min(b.lower[3], o.lower[3])>>,
             <<Max(b.upper[1], o.upper[1]), Max(b.upper[2], o.upper[2]),
               Max(b.upper[3], o.upper[3])>>)
RECURSIVE BoxOfPoints(_, _)
BoxOfPoints(b, pts) ==
    IF pts = <<>> THEN b ELSE BoxOfPoints(BoxInsert(b, Head(pts)), Tail(pts))

IsEmptyBox(b) == b.e \/ \E i \in 1..3 : b.upper[i] < b.lower[i]
FiniteNonDegenerate(b) == (~b.e) /\ \A i \in 1..3 : b.lower[i] < b.upper[i]

Kinds == {"structuredRegular", "unstructured", "amr", "planet", "cloud"}

\* Object::isValid, which UnstructuredField and BlockStructuredField inherit:
\* neither class overrides it nor keeps any member a rejected finalize sets
Object_isValid == TRUE

\* a diagnostic passed to reportMessage
Msg(sev, about) == [severity |-> sev, about |-> about]

\* the record of the most recent call on the object
Last(op, ret, created, threw) ==
    [op |-> op, ret |-> ret, created |-> created, threw |-> threw]

\* a backend scalar field made by bnScalarFieldCreate: what it was built
\* from, how often bnRelease was called on it, and how many of the BNData
\* objects made for it were never released
BackendField(type, from, data) ==
    [type |-> type, from |-> from, released |-> 0, unreleasedData |-> data]

MaxHandles == 2

(***************************************************************************)
(* StructuredRegularField                                                  *)
(***************************************************************************)
DataArrays ==
    { [id |-> 1, elementType |-> "FLOAT32", size |-> V3(2, 2, 2)],
      [id |-> 2, elementType |-> "UINT8",   size |-> V3(1, 2, 2)],
      [id |-> 3, elementType |-> "FLOAT64", size |-> V3(3, 2, 2)] }

StructuredUnset == [data |-> Null, origin |-> Null, spacing |-> Null]

\* the parameter stores a client commits: every data array with the default
\* origin and spacing, and one array with the others set
StructuredStores ==
    LET d == Some(CHOOSE a \in DataArrays : a.id = 1)
    IN  {StructuredUnset}
        \cup {[StructuredUnset EXCEPT !.data = Some(a)] : a \in DataArrays}
        \cup {[data |-> d, origin |-> o, spacing |-> sp] :
                  o \in {Null, Some(V3(1, 0, 0))},
                  sp \in {Some(V3(2, 1, 1)), Some(V3(0, 1, 1))}}
        \cup {[StructuredUnset EXCEPT !.origin = Some(V3(1, 0, 0))]}

\* the members after construction; m_origin, m_spacing and
\* m_coordUpperBound have no initializer and are not read while m_data is null
StructuredNew ==
    [ m_data |-> Null, m_dims |-> V3(0, 0, 0), m_origin |-> V3(0, 0, 0),
      m_spacing |-> V3(0, 0, 0), m_coordUpperBound |-> <<0, 0, 0>> ]

\* what m_data->size() can leave in m_dims when m_data is null and the
\* process survives the read
GarbageDims == <<V3(0, 0, 0), V3(7, 7, 7)>>

\* std::nextafterf(v, 0) for an integral v >= 0: the float just below v
\* (<<v, "below">>), and 0 for 0
NextAfterToZero(v) == IF v = 0 THEN <<0, "exact">> ELSE <<v, "below">>

\* StructuredRegularField::commitParameters; dims is what m_data->size()
\* yields
StructuredCommit(m, p, dims) ==
    [ m EXCEPT !.m_data = p.data,
               !.m_origin = getParam(p.origin, V3(0, 0, 0)),
               !.m_spacing = getParam(p.spacing, V3(1, 1, 1)),
               !.m_dims = dims ]

StructuredIsValid(m) == m.m_data # Null

\* StructuredRegularField::finalize: <<members, messages, outcome>>
StructuredFinalize(m) ==
    IF m.m_data = Null
    THEN <<m, <<Msg("WARNING", "data")>>, "rejected">>
    ELSE LET dims == m.m_data[1].size
         IN  << [m EXCEPT !.m_coordUpperBound =
                     << NextAfterToZero(dims[1] - 1),
                        NextAfterToZero(dims[2] - 1),
                        NextAfterToZero(dims[3] - 1) >>],
                <<>>, "completed" >>

\* bounds that take dims, not dims-1, cells per axis
StructuredBounds_NoMinusOne(m) ==
    IF StructuredIsValid(m)
    THEN Box(m.m_origin, V3Add(m.m_origin, V3Mul(m.m_dims, m.m_spacing)))
    ELSE EmptyBox

StructuredBounds(m) ==
    IF StructuredIsValid(m)
    THEN Box(m.m_origin, V3Add(m.m_origin, V3Mul(V3Sub1(m.m_dims, 1), m.m_spacing)))
    ELSE EmptyBox

\* what StructuredRegularField::createBarneyScalarField hands to barney
StructuredCreateInputs(m) ==
    [ textureData |-> m.m_data, gridOrigin |-> m.m_origin,
      gridSpacing |-> m.m_spacing ]

StructuredTypeImplemented(m) ==
    m.m_data[1].elementType \in {"FLOAT32", "UFIXED8", "UINT8"}

(***************************************************************************)
(* PlanetSpatialField (floats in hundredths)                               *)
(***************************************************************************)
PlanetUnset ==
    [ elevationMap |-> Null, diffuseMap |-> Null, normalMap |-> Null,
      sphereRadius |-> Null, elevationScale |-> Null,
      atmosphereThickness |-> Null, sphereCenter |-> Null ]

\* the parameter stores a client commits: nothing set, each parameter set
\* alone, and a planet of radius 0 without atmosphere
PlanetStores ==
    { PlanetUnset,
      [PlanetUnset EXCEPT !.elevationMap = Some([id |-> 1])],
      [PlanetUnset EXCEPT !.diffuseMap = Some([id |-> 2])],
      [PlanetUnset EXCEPT !.normalMap = Some([id |-> 3])],
      [PlanetUnset EXCEPT !.sphereRadius = Some(100)],
      [PlanetUnset EXCEPT !.elevationScale = Some(30)],
      [PlanetUnset EXCEPT !.atmosphereThickness = Some(0)],
      [PlanetUnset EXCEPT !.sphereCenter = Some(V3(100, 0, 0))],
      [PlanetUnset EXCEPT !.sphereRadius = Some(0), !.atmosphereThickness = Some(0)] }

\* PlanetSpatialField::commitParameters
PlanetCommit(p) ==
    [ m_elevationMap |-> p.elevationMap,
      m_diffuseMap |-> p.diffuseMap,
      m_normalMap |-> p.normalMap,
      m_sphereRadius |-> getParam(p.sphereRadius, 50),
      m_elevationScale |-> getParam(p.elevationScale, 10),
      m_atmosphereThickness |-> getParam(p.atmosphereThickness, 20),
      m_sphereCenter |-> getParam(p.sphereCenter, V3(0, 0, 0)) ]

\* the members before the first commitParameters (overwritten by it; no
\* call reads them earlier)
PlanetNew == PlanetCommit(PlanetUnset)

PlanetIsValid(m) == TRUE

PlanetBounds(m) ==
    LET totalRadius == m.m_sphereRadius + m.m_atmosphereThickness
    IN  Box(V3Sub1(m.m_sphereCenter, totalRadius),
            V3Add1(m.m_sphereCenter, totalRadius))

\* PlanetSpatialField::createBarneyScalarField reads every member
PlanetCreateInputs(m) == m

(***************************************************************************)
(* CloudSpatialField (floats in hundredths)                                *)
(***************************************************************************)
DEFAULT_PLANET_RADIUS == 90
DEFAULT_ATMOSPHERE_THICKNESS == 1

CloudUnset ==
    [cloudData |-> Null, planetRadius |-> Null, atmosphereThickness |-> Null]

\* the parameter stores a client commits; setting a parameter to its default
\* value is one of them
CloudStores ==
    [ cloudData : {Null, Some([id |-> 1]), Some([id |-> 2])},
      planetRadius : {Null, Some(DEFAULT_PLANET_RADIUS), Some(0)},
      atmosphereThickness : {Null, Some(0)} ]

CloudNew ==
    [ m_cloudData |-> Null, m_planetRadius |-> DEFAULT_PLANET_RADIUS,
      m_atmosphereThickness |-> DEFAULT_ATMOSPHERE_THICKNESS ]

\* CloudSpatialField::commitParameters: the members it stores
CloudCommit(p) ==
    [ m_cloudData |-> p.cloudData,
      m_planetRadius |-> getParam(p.planetRadius, DEFAULT_PLANET_RADIUS),
      m_atmosphereThickness |->
          getParam(p.atmosphereThickness, DEFAULT_ATMOSPHERE_THICKNESS) ]

\* a release test that forgets the two radii
CloudChanged_DataOnly(prev, m) == prev.m_cloudData # m.m_cloudData

\* ... and its test for releasing the cached backend field
CloudChanged(prev, m) ==
    \/ prev.m_cloudData # m.m_cloudData
    \/ prev.m_planetRadius # m.m_planetRadius
    \/ prev.m_atmosphereThickness # m.m_atmosphereThickness

\* a cloud field that is valid only with its density texture
CloudIsValid_NeedsData(m) == m.m_cloudData # Null

CloudIsValid(m) == TRUE

CloudBounds(m) ==
    LET totalRadius == m.m_planetRadius + m.m_atmosphereThickness
    IN  Box(V3(-totalRadius, -totalRadius, -totalRadius),
            V3(totalRadius, totalRadius, totalRadius))

CloudCreateInputs(m) == m

(***************************************************************************)
(* UnstructuredField                                                       *)
(***************************************************************************)
VertexArrays ==
    { [id |-> 1, elementType |-> "FLOAT32_VEC3",
       elems |-> <<V3(0, 0, 0), V3(1, 1, 1)>>],
      [id |-> 2, elementType |-> "FLOAT32_VEC3",
       elems |-> <<V3(0, 0, 0), V3(2, 1, 0)>>],
      [id |-> 9, elementType |-> "FLOAT32_VEC2", elems |-> <<>>] }
IndexTypes == {"UINT32", "UINT64", "INT32"}

UnstructuredUnset ==
    [ vertexPosition |-> Null, vertexData |-> Null, cellData |-> Null,
      index |-> Null, cellType |-> Null, cellBegin |-> Null, cellIndex |-> Null ]

\* a complete per-vertex mesh
UnstructuredGood ==
    [ vertexPosition |-> Some(CHOOSE a \in VertexArrays : a.id = 1),
      vertexData |-> Some([id |-> 3, elementType |-> "FLOAT32"]),
      cellData |-> Null,
      index |-> Some([id |-> 5, elementType |-> "UINT32"]),
      cellType |-> Some([id |-> 6, elementType |-> "UINT8"]),
      cellBegin |-> Some([id |-> 7, elementType |-> "UINT32"]),
      cellIndex |-> Null ]

\* the parameter stores a client commits: nothing set, the complete mesh,
\* and the complete mesh with one parameter unset or replaced
UnstructuredStores ==
    {UnstructuredUnset, UnstructuredGood}
    \cup {[UnstructuredGood EXCEPT !.vertexPosition = v] :
              v \in {Null} \cup {Some(a) : a \in VertexArrays}}
    \cup {[UnstructuredGood EXCEPT !.vertexData = v, !.cellData = c] :
              v \in {Null, UnstructuredGood.vertexData},
              c \in {Null, Some([id |-> 4, elementType |-> "FLOAT32"])}}
    \cup {[UnstructuredGood EXCEPT !.index = v] :
              v \in {Null} \cup {Some([id |-> 5, elementType |-> t]) : t \in IndexTypes}}
    \cup {[UnstructuredGood EXCEPT !.cellType = Null]}
    \cup {[UnstructuredGood EXCEPT !.cellBegin = v] :
              v \in {Null} \cup {Some([id |-> 7, elementType |-> t]) : t \in IndexTypes}}
    \cup {[UnstructuredGood EXCEPT !.cellBegin = Null,
                                   !.cellIndex = Some([id |-> 8, elementType |-> "UINT32"])]}

UnstructuredNew ==
    [ vertexPosition |-> Null, vertexData |-> Null, cellData |-> Null,
      index |-> Null, cellType |-> Null, cellBegin |-> Null,
      m_bounds |-> EmptyBox ]

\* UnstructuredField::commitParameters; "cell.index" stands in for a missing
\* "cell.begin"
UnstructuredCommit(m, p) ==
    [ m EXCEPT !.vertexPosition = p.vertexPosition,
               !.vertexData = p.vertexData,
               !.cellData = p.cellData,
               !.index = p.index,
               !.cellType = p.cellType,
               !.cellBegin = IF p.cellBegin # Null THEN p.cellBegin ELSE p.cellIndex ]

\* the two element-type tests at the end of UnstructuredField::finalize:
\* the messages they report and whether finalize returns there
IndexTypeCheck(arr) ==
    IF arr[1].elementType = "UINT32" THEN <<<<>>, FALSE>>
    ELSE IF arr[1].elementType = "UINT64"
         THEN <<<<Msg("ERROR", "only 32-bit indices")>>, FALSE>>
    ELSE <<<<Msg("ERROR", "wrong element type")>>, TRUE>>

\* UnstructuredField::finalize: <<members, messages, outcome>>
UnstructuredFinalize(m) ==
    IF m.vertexPosition = Null
    THEN <<m, <<Msg("WARNING", "vertex.position")>>, "rejected">>
    ELSE IF m.vertexPosition[1].elementType # "FLOAT32_VEC3"
    THEN <<m, <<Msg("WARNING", "vertex.position type")>>, "rejected">>
    ELSE IF m.vertexData = Null /\ m.cellData = Null
    THEN <<m, <<Msg("WARNING", "vertex.data OR cell.data")>>, "rejected">>
    ELSE IF m.vertexData # Null /\ m.cellData # Null
    THEN <<m, <<Msg("WARNING", "both cell.data and vertex.data")>>, "rejected">>
    ELSE IF m.index = Null
    THEN <<m, <<Msg("WARNING", "index")>>, "rejected">>
    ELSE IF m.cellType = Null
    THEN <<m, <<Msg("WARNING", "cell.type")>>, "rejected">>
    ELSE IF m.cellBegin = Null
    THEN <<m, <<Msg("WARNING", "cell.begin")>>, "rejected">>
    ELSE LET m2 == [m EXCEPT !.m_bounds =
                        BoxOfPoints(EmptyBox, m.vertexPosition[1].elems)]
             ci == IndexTypeCheck(m.index)
             cb == IndexTypeCheck(m.cellBegin)
         IN  IF ci[2] THEN <<m2, ci[1], "rejected">>
             ELSE IF cb[2] THEN <<m2, ci[1] \o cb[1], "rejected">>
             ELSE <<m2, ci[1] \o cb[1], "completed">>

UnstructuredBounds(m) == m.m_bounds

\* UnstructuredField::createBarneyScalarField dereferences these pointers
\* without a test
UnstructuredCreateDerefsNull(m) ==
    \/ m.cellBegin = Null
    \/ m.vertexPosition = Null
    \/ (m.cellData = Null /\ m.vertexData = Null)
    \/ m.index = Null
    \/ m.cellType = Null

\* how createBarneyScalarField reads an index-like array: as BN_INT
\* whatever its element type
AsInt32(arr) == IF arr = Null THEN Null
                ELSE Some([id |-> arr[1].id, stored |-> arr[1].elementType,
                           readAs |-> "INT32"])

UnstructuredCreateInputs(m) ==
    [ vertices |-> m.vertexPosition,
      scalars |-> IF m.vertexData # Null THEN m.vertexData ELSE m.cellData,
      perVertex |-> m.vertexData # Null,
      indices |-> AsInt32(m.index),
      cellType |-> m.cellType,
      elementOffsets |-> AsInt32(m.cellBegin) ]

(***************************************************************************)
(* BlockStructuredField                                                    *)
(***************************************************************************)
Box3i(lo, hi) == [lower |-> lo, upper |-> hi]
Block3D(id, size, vals) == Some([id |-> id, size |-> size, vals |-> vals])

AmrUnset ==
    [cellWidth |-> Null, blockBounds |-> Null, blockLevel |-> Null, blockData |-> Null]

\* per-block arrays of one and of two blocks
AmrBounds1 == <<Box3i(V3(0, 0, 0), V3(1, 0, 0))>>
AmrBounds2 == <<Box3i(V3(0, 0, 0), V3(1, 0, 0)), Box3i(V3(1, 0, 0), V3(1, 1, 0))>>
AmrData1 == <<Block3D(1, V3(2, 1, 1), <<5, 6>>)>>
AmrData2 == <<Block3D(1, V3(2, 1, 1), <<5, 6>>), Block3D(2, V3(1, 2, 1), <<7, 8>>)>>

\* two's-complement int arithmetic; the width of int is scaled down from 32
\* bits to IntBits so that products that do not fit stay within reach
IntBits == 16
Wrap32(x) == ((x + 2 ^ (IntBits - 1)) % (2 ^ IntBits)) - 2 ^ (IntBits - 1)
Shl1(level) == Wrap32(2 ^ level)
Mul32(a, b) == Wrap32(a * b)

\* the parameter stores a client commits: nothing set, complete fields of
\* one and two blocks, one of the three arrays missing, arrays of unequal
\* length, a null entry in block.data, and a block whose level is the
\* highest an int shift takes
AmrStores ==
    LET st(b, l, d) == [cellWidth |-> Null, blockBounds |-> b, blockLevel |-> l,
                        blockData |-> d]
    IN  { AmrUnset,
          st(Some(AmrBounds1), Some(<<0>>), Some(AmrData1)),
          st(Some(AmrBounds2), Some(<<0, 1>>), Some(AmrData2)),
          st(Some(AmrBounds2), Some(<<1, 0>>), Some(AmrData2)),
          st(Null, Some(<<0, 1>>), Some(AmrData2)),
          st(Some(AmrBounds2), Null, Some(AmrData2)),
          st(Some(AmrBounds2), Some(<<0, 1>>), Null),
          st(Some(AmrBounds1), Some(<<0, 1>>), Some(AmrData2)),
          st(Some(AmrBounds2), Some(<<0>>), Some(AmrData2)),
          st(Some(AmrBounds2), Some(<<0, 1>>), Some(<<AmrData2[1], Null>>)),
          st(Some(AmrBounds1), Some(<<IntBits - 1>>), Some(AmrData1)) }

AmrNew ==
    [ cellWidth |-> Null, blockBounds |-> Null, blockLevel |-> Null,
      blockData |-> Null,
      m_generatedBlockBounds |-> <<>>, m_generatedBlockLevels |-> <<>>,
      m_generatedBlockOffsets |-> <<>>, m_generatedBlockScalars |-> <<>>,
      m_bounds |-> EmptyBox ]

\* BlockStructuredField::commitParameters
AmrCommit(m, p) ==
    [ m EXCEPT !.cellWidth = p.cellWidth, !.blockBounds = p.blockBounds,
               !.blockLevel = p.blockLevel, !.blockData = p.blockData ]

\* the reads of block i that the loop of finalize makes outside the three
\* arrays or through a null block
AmrBadRead(m, i) ==
    \/ i > Len(m.blockBounds[1])
    \/ i > Len(m.blockLevel[1])
    \/ m.blockData[1][i] = Null

AmrReadsBad(m) == \E i \in 1..Len(m.blockData[1]) : AmrBadRead(m, i)

\* what such reads yield when the process survives them
AmrGarbage ==
    << [bounds |-> Box3i(V3(0, 0, 0), V3(0, 0, 0)), level |-> 0],
       [bounds |-> Box3i(V3(-3, 0, 0), V3(9, 9, 9)), level |-> 1] >>

\* *(blockBounds + i) and *(blockLevels + i)
AmrBlockBounds(m, i, g) ==
    IF i > Len(m.blockBounds[1]) THEN g.bounds ELSE m.blockBounds[1][i]
AmrBlockLevel(m, i, g) ==
    IF i > Len(m.blockLevel[1]) THEN g.level ELSE m.blockLevel[1][i]

\* an int product of the world bounds of block i that does not fit an int
AmrBlockOverflows(m, i, g) ==
    LET bounds == AmrBlockBounds(m, i, g)
        s == Shl1(AmrBlockLevel(m, i, g))
    IN  \E k \in 1..3 :
            \/ bounds.lower[k] * s # Mul32(bounds.lower[k], s)
            \/ (bounds.upper[k] + 1) * s # Mul32(Wrap32(bounds.upper[k] + 1), s)

AmrOverflows(m, g) == \E i \in 1..Len(m.blockData[1]) : AmrBlockOverflows(m, i, g)

\* one round of the loop over the blocks
AmrBlock(m, i, g) ==
    LET bounds == AmrBlockBounds(m, i, g)
        level == AmrBlockLevel(m, i, g)
        bd == m.blockData[1][i]
        scalars == IF bd = Null THEN <<>>
                   ELSE SubSeq(bd[1].vals, 1, bd[1].size[1] * bd[1].size[2] * bd[1].size[3])
        s == Shl1(level)
        worldBounds ==
            [ lower |-> V3(Mul32(bounds.lower[1], s), Mul32(bounds.lower[2], s),
                           Mul32(bounds.lower[3], s)),
              upper |-> V3(Mul32(Wrap32(bounds.upper[1] + 1), s),
                           Mul32(Wrap32(bounds.upper[2] + 1), s),
                           Mul32(Wrap32(bounds.upper[3] + 1), s)) ]
    IN  [ m EXCEPT
            !.m_generatedBlockBounds = @ \o
                << bounds.lower[1], bounds.lower[2], bounds.lower[3],
                   bounds.upper[1], bounds.upper[2], bounds.upper[3] >>,
            !.m_generatedBlockLevels = Append(@, level),
            !.m_generatedBlockOffsets = Append(@, Len(m.m_generatedBlockScalars)),
            !.m_generatedBlockScalars = @ \o scalars,
            !.m_bounds = BoxExtend(@, worldBounds) ]

RECURSIVE AmrLoop(_, _, _, _)
AmrLoop(m, i, numBlocks, g) ==
    IF i > numBlocks THEN m ELSE AmrLoop(AmrBlock(m, i, g), i + 1, numBlocks, g)

\* a finalize that appends to the arrays of the finalize before it
AmrFinalize_NoClear(m, g) ==
    IF m.blockBounds = Null \/ m.blockLevel = Null \/ m.blockData = Null
    THEN <<m, <<Msg("WARNING", "block")>>, "rejected">>
    ELSE <<AmrLoop([m EXCEPT !.m_bounds = EmptyBox], 1, Len(m.blockData[1]), g),
           <<>>, "completed">>

\* BlockStructuredField::finalize: <<members, messages, outcome>>
AmrFinalize(m, g) ==
    IF m.blockBounds = Null
    THEN <<m, <<Msg("WARNING", "block.bounds")>>, "rejected">>
    ELSE IF m.blockLevel = Null
    THEN <<m, <<Msg("WARNING", "block.level")>>, "rejected">>
    ELSE IF m.blockData = Null
    THEN <<m, <<Msg("WARNING", "block.data")>>, "rejected">>
    ELSE LET cleared ==
                 [ m EXCEPT !.m_generatedBlockBounds = <<>>,
                            !.m_generatedBlockLevels = <<>>,
                            !.m_generatedBlockOffsets = <<>>,
                            !.m_generatedBlockScalars = <<>>,
                            !.m_bounds = EmptyBox ]
         IN  <<AmrLoop(cleared, 1, Len(m.blockData[1]), g), <<>>, "completed">>

AmrBounds(m) == m.m_bounds

(***************************************************************************)
(* PlanetSampler::DD::sample and CloudSampler::DD::sample.  Lengths and    *)
(* densities count thousandths (0.127 is 127).                             *)
(***************************************************************************)
V3Sub(a, b) == <<a[1] - b[1], a[2] - b[2], a[3] - b[3]>>

\* length(v), rounded down to a thousandth
Length(v) ==
    LET s == v[1] * v[1] + v[2] * v[2] + v[3] * v[3]
    IN  CHOOSE r \in 0..2048 : r * r <= s /\ (r + 1) * (r + 1) > s

\* what a fetch from a texture can return, whatever the texture holds
TexVals == {0, 500, 1000}

\* the points sampled, and the sphere centres a field is configured with
SamplePoints ==
    {V3(x, 0, 0) : x \in {0, 100, 127, 400, 700, 950, 1000, 1200}}
        \cup {V3(300, 100, 0), V3(300, 400, 0)}
SphereCenters == {V3(0, 0, 0), V3(300, 0, 0)}

\* a planet field as configured by PlanetSpatialField::createBarneyScalarField
\* (elevationMap: 0 = none set)
PlanetConfigs ==
    [ sphereCenter : SphereCenters, sphereRadius : {0, 500, 900},
      elevationScale : {0, 100}, elevationMap : {0, 1} ]

\* PlanetSampler::DD: the fields the device-side sampler has
PlanetSampler_DD(cfg) ==
    [ elevationTex |-> cfg.elevationMap, elevationScale |-> cfg.elevationScale,
      planetRadius |-> cfg.sphereRadius ]

innerCoreRadius == 127
outterCoreRadius == innerCoreRadius + 220
mantleRadius == outterCoreRadius + 285

\* PlanetSampler::DD::sample, given what the elevation fetch returned
PlanetSample(dd, P, elevation) ==
    LET dist == Length(P)
        surfaceElevation ==
            dd.planetRadius + TruncDiv(dd.elevationScale * elevation, 1000)
    IN  IF dist < innerCoreRadius THEN 20
        ELSE IF dist < outterCoreRadius THEN 40
        ELSE IF dist < mantleRadius THEN 60
        ELSE IF dist < dd.planetRadius THEN 800
        ELSE IF dist >= dd.planetRadius /\ dist < surfaceElevation
             THEN 100 + TruncDiv(8 * elevation, 10)
        ELSE 0

\* one call of PlanetSampler::DD::sample: the elevation is fetched first,
\* through a null texture object when no map is set
PlanetSampler_sample(elevation, ubo) ==
    /\ sm_pc = "call" /\ sm_kind = "planet"
    /\ LET dd == PlanetSampler_DD(sm_cfg)
           nullTex == dd.elevationTex = 0
       IN  /\ nullTex \/ ubo = 1
           /\ sm_fetches' = 1
           /\ IF nullTex /\ ubo = 0
              THEN sm_pc' = "crashed" /\ UNCHANGED sm_ret
              ELSE sm_pc' = "done" /\ sm_ret' = PlanetSample(dd, sm_P, elevation)
    /\ UNCHANGED <<sm_kind, sm_cfg, sm_P>>
    /\ UNCHANGED <<wc_vars, sf_vars, ms_vars, te_vars, is_vars, db_vars, dn_vars, bf_vars>>

\* a cloud field as configured (cloudData: 0 = none set)
CloudConfigs ==
    [ sphereCenter : SphereCenters, sphereRadius : {0, 500},
      maxHeight : {0, 200}, cloudData : {0, 1} ]

\* CloudSampler::DD
CloudSampler_DD(cfg) ==
    [ cloudDataTex |-> cfg.cloudData, sphereRadius |-> cfg.sphereRadius,
      sphereCenter |-> cfg.sphereCenter, maxHeight |-> cfg.maxHeight ]

\* what clamp(x, 0.f, 1.f) can make of a NaN
NaNClamps == {"nan", "lo", "hi"}

\* clamp(height / maxHeight, 0.0f, 1.0f) for a height >= 0
NormalizedHeight(height, maxHeight, nanClamp) ==
    IF maxHeight = 0
    THEN IF height = 0
         THEN [nan |-> nanClamp = "nan", v |-> IF nanClamp = "hi" THEN 1000 ELSE 0]
         ELSE [nan |-> FALSE, v |-> 1000]
    ELSE [nan |-> FALSE,
          v |-> Min(Max(TruncDiv(1000 * height, maxHeight), 0), 1000)]

\* a test that lets the top of the atmosphere (normalized height 1) through
CloudReturnsZero_Strict(dd, P, nanClamp) ==
    LET dist == Length(V3Sub(P, dd.sphereCenter))
        height == Max(0, dist - dd.sphereRadius)
        normalizedHeight == NormalizedHeight(height, dd.maxHeight, nanClamp)
    IN  dist < dd.sphereRadius \/ (~normalizedHeight.nan /\ normalizedHeight.v > 1000)

\* the test of CloudSampler::DD::sample that returns 0.0f
CloudReturnsZero(dd, P, nanClamp) ==
    LET relPos == V3Sub(P, dd.sphereCenter)
        dist == Length(relPos)
        height == Max(0, dist - dd.sphereRadius)
        normalizedHeight == NormalizedHeight(height, dd.maxHeight, nanClamp)
    IN  dist < dd.sphereRadius \/ (~normalizedHeight.nan /\ normalizedHeight.v >= 1000)

\* one call of CloudSampler::DD::sample
CloudSampler_sample(density, nanClamp, ubo) ==
    /\ sm_pc = "call" /\ sm_kind = "cloud"
    /\ LET dd == CloudSampler_DD(sm_cfg)
           zero == CloudReturnsZero(dd, sm_P, nanClamp)
           nullTex == ~zero /\ dd.cloudDataTex = 0
       IN  /\ nullTex \/ ubo = 1
           /\ sm_fetches' = IF zero THEN 0 ELSE 1
           /\ IF nullTex /\ ubo = 0
              THEN sm_pc' = "crashed" /\ UNCHANGED sm_ret
              ELSE sm_pc' = "done" /\ sm_ret' = IF zero THEN 0 ELSE density
    /\ UNCHANGED <<sm_kind, sm_cfg, sm_P>>
    /\ UNCHANGED <<wc_vars, sf_vars, ms_vars, te_vars, is_vars, db_vars, dn_vars, bf_vars>>

(***************************************************************************)
(* ModelSlot: the per-device slots and their instance groups               *)
(***************************************************************************)
MaxLogical == 2
MaxRtcGroups == 3

RECURSIVE SeqsOfDistinct(_, _)
\* the sequences of n distinct elements of S
SeqsOfDistinct(S, n) ==
    IF n = 0 THEN {<<>>}
    ELSE UNION {{Append(q, x) : x \in S \ {q[i] : i \in 1..Len(q)}} :
                    q \in SeqsOfDistinct(S, n - 1)}

\* Device: its contextRank, and sbtDirty (true after construction)
Device(rank) == [contextRank |-> rank, sbtDirty |-> TRUE]

\* DevGroup: some of the numLogical logical devices of the context, each
\* with its own contextRank below numLogical
DevGroups(numLogical) ==
    UNION {{[i \in 1..n |-> Device(q[i])] : q \in SeqsOfDistinct(0..(numLogical - 1), n)} :
               n \in 1..numLogical}

\* a getPLD that hands every device the first slot
getPLD_FirstSlot(device) == 1

\* ModelSlot::getPLD: the index into perLogical (counted from 1)
getPLD(device) == device.contextRank + 1

\* ModelSlot::ModelSlot: perLogical.resize(devices->numLogical)
ModelSlot_perLogical(numLogical) == [i \in 1..numLogical |-> [instanceGroup |-> 0]]

\* the barney groups an instance can name (0 = a null group) with the rtc
\* groups Group::getPLD(device) holds for them, and whether the group has a
\* light of a type build does not handle; the per-device data of group 2
\* holds a volume group on the devices other than the one of rank 0
GroupIds == 0..3
GroupPLD(g, device) ==
    CASE g = 1 -> <<"userGeomGroup">>
      [] g = 2 /\ device.contextRank = 0 ->
             <<"volumeGeomsGroup", "triangleGeomGroup">>
      [] g = 2 /\ device.contextRank # 0 ->
             <<"volumeGeomsGroup", "triangleGeomGroup", "volumeGroups">>
      [] OTHER -> <<>>
GroupHasUnhandledLight(g) == g = 3

\* the instance lists passed to setInstances
InstanceLists == {<<>>, <<0, 2>>, <<1, 3>>}

\* rtc::Device::freeGroup
freeGroup(rtc, h) == [rtc EXCEPT ![h].freed = @ + 1]

\* a setInstances that frees the groups but leaves the pointers in the slots
RECURSIVE SetInstancesLoop_KeepsPointer(_, _, _, _)
SetInstancesLoop_KeepsPointer(devices, perLogical, rtc, i) ==
    IF i > Len(devices) THEN <<devices, perLogical, rtc>>
    ELSE LET h == perLogical[getPLD(devices[i])].instanceGroup
         IN  SetInstancesLoop_KeepsPointer(
                 [devices EXCEPT ![i].sbtDirty = TRUE], perLogical,
                 IF h # 0 THEN freeGroup(rtc, h) ELSE rtc, i + 1)

\* the loop of setInstances over the devices, from device i on:
\* <<devices, perLogical, rtc>>
RECURSIVE SetInstancesLoop(_, _, _, _)
SetInstancesLoop(devices, perLogical, rtc, i) ==
    IF i > Len(devices) THEN <<devices, perLogical, rtc>>
    ELSE LET pld == getPLD(devices[i])
             h == perLogical[pld].instanceGroup
         IN  SetInstancesLoop(
                 [devices EXCEPT ![i].sbtDirty = TRUE],
                 IF h # 0 THEN [perLogical EXCEPT ![pld].instanceGroup = 0]
                 ELSE perLogical,
                 IF h # 0 THEN freeGroup(rtc, h) ELSE rtc,
                 i + 1)

\* ModelSlot::setInstances
ModelSlot_setInstances(groups) ==
    /\ ms_life = "live"
    /\ LET r == SetInstancesLoop(ms_devices, ms_perLogical, ms_rtc, 1)
       IN  /\ ms_devices' = r[1]
           /\ ms_perLogical' = r[2]
           /\ ms_rtc' = r[3]
    /\ ms_instances' = groups
    /\ ms_last' = "setInstances"
    /\ UNCHANGED <<ms_life, ms_numLogical>>
    /\ UNCHANGED <<wc_vars, sf_vars, sm_vars, te_vars, is_vars, db_vars, dn_vars, bf_vars>>

\* rtcGroups of one device, and the instance indices i pushed with them
\* (into inputInstIDs, and as instances.xfms[i] into rtcTransforms)
RECURSIVE RtcGroupsOf(_, _, _)
RtcGroupsOf(groups, device, i) ==
    IF i > Len(groups) THEN <<>>
    ELSE GroupPLD(groups[i], device) \o RtcGroupsOf(groups, device, i + 1)

RECURSIVE InstIDsOf(_, _, _)
InstIDsOf(groups, device, i) ==
    IF i > Len(groups) THEN <<>>
    ELSE [k \in 1..Len(GroupPLD(groups[i], device)) |-> i - 1]
             \o InstIDsOf(groups, device, i + 1)

\* the loop of build over the devices, from device i on; nulls are the
\* devices whose createInstanceGroup returns null: <<perLogical, rtc>>
RECURSIVE BuildLoop(_, _, _, _, _, _)
BuildLoop(devices, groups, perLogical, rtc, nulls, i) ==
    IF i > Len(devices) THEN <<perLogical, rtc>>
    ELSE LET pld == getPLD(devices[i])
             h == perLogical[pld].instanceGroup
             freed == IF h # 0 THEN freeGroup(rtc, h) ELSE rtc
             created == [ device |-> devices[i].contextRank,
                          rtcGroups |-> RtcGroupsOf(groups, devices[i], 1),
                          inputInstIDs |-> InstIDsOf(groups, devices[1], 1),
                          rtcTransforms |-> InstIDsOf(groups, devices[i], 1),
                          freed |-> 0, accelBuilt |-> TRUE ]
         IN  IF i \in nulls
             THEN BuildLoop(devices, groups,
                            [perLogical EXCEPT ![pld].instanceGroup = 0],
                            freed, nulls, i + 1)
             ELSE BuildLoop(devices, groups,
                            [perLogical EXCEPT ![pld].instanceGroup = Len(freed) + 1],
                            Append(freed, created), nulls, i + 1)

\* ModelSlot::build
ModelSlot_build(nulls) ==
    /\ ms_life = "live"
    /\ IF \E i \in 1..Len(ms_instances) : GroupHasUnhandledLight(ms_instances[i])
       THEN /\ nulls = {}
            /\ ms_last' = "build threw"
            /\ UNCHANGED <<ms_perLogical, ms_rtc>>
       ELSE /\ Len(ms_rtc) + Len(ms_devices) - Cardinality(nulls) <= MaxRtcGroups
            /\ LET r == BuildLoop(ms_devices, ms_instances, ms_perLogical, ms_rtc, nulls, 1)
               IN  ms_perLogical' = r[1] /\ ms_rtc' = r[2]
            /\ ms_last' = "build"
    /\ UNCHANGED <<ms_life, ms_numLogical, ms_devices, ms_instances>>
    /\ UNCHANGED <<wc_vars, sf_vars, sm_vars, te_vars, is_vars, db_vars, dn_vars, bf_vars>>

\* Device::syncPipelineAndSBT on device i of the group: the SBT is rebuilt
\* and sbtDirty cleared
syncPipelineAndSBT(i) ==
    /\ ms_life = "live"
    /\ ms_devices[i].sbtDirty
    /\ ms_devices' = [ms_devices EXCEPT ![i].sbtDirty = FALSE]
    /\ ms_last' = "sync"
    /\ UNCHANGED <<ms_life, ms_numLogical, ms_perLogical, ms_rtc, ms_instances>>
    /\ UNCHANGED <<wc_vars, sf_vars, sm_vars, te_vars, is_vars, db_vars, dn_vars, bf_vars>>

(***************************************************************************)
(* The SpatialField object: virtual dispatch on the subtype                *)
(***************************************************************************)
NewMembers(kind) ==
    CASE kind = "structuredRegular" -> StructuredNew
      [] kind = "unstructured" -> UnstructuredNew
      [] kind = "amr" -> AmrNew
      [] kind = "planet" -> PlanetNew
      [] kind = "cloud" -> CloudNew

UnsetParams(kind) ==
    CASE kind = "structuredRegular" -> StructuredUnset
      [] kind = "unstructured" -> UnstructuredUnset
      [] kind = "amr" -> AmrUnset
      [] kind = "planet" -> PlanetUnset
      [] kind = "cloud" -> CloudUnset

Stores(kind) ==
    CASE kind = "structuredRegular" -> StructuredStores
      [] kind = "unstructured" -> UnstructuredStores
      [] kind = "amr" -> AmrStores
      [] kind = "planet" -> PlanetStores
      [] kind = "cloud" -> CloudStores

isValid(kind, m) ==
    CASE kind = "structuredRegular" -> StructuredIsValid(m)
      [] kind = "unstructured" -> Object_isValid
      [] kind = "amr" -> Object_isValid
      [] kind = "planet" -> PlanetIsValid(m)
      [] kind = "cloud" -> CloudIsValid(m)

bounds(kind, m) ==
    CASE kind = "structuredRegular" -> StructuredBounds(m)
      [] kind = "unstructured" -> UnstructuredBounds(m)
      [] kind = "amr" -> AmrBounds(m)
      [] kind = "planet" -> PlanetBounds(m)
      [] kind = "cloud" -> CloudBounds(m)

\* the values createBarneyScalarField builds the backend field from
CreateInputs(kind, m) ==
    CASE kind = "structuredRegular" -> StructuredCreateInputs(m)
      [] kind = "unstructured" -> UnstructuredCreateInputs(m)
      [] kind = "planet" -> PlanetCreateInputs(m)
      [] kind = "cloud" -> CloudCreateInputs(m)
      [] kind = "amr" -> m

\* the other branch of the #if in BlockStructuredField's
\* createBarneyScalarField: the call returns a backend field
CreateExits_OtherBranch(kind) == FALSE

\* createBarneyScalarField ends the process with exit(0)
CreateExits(kind) == kind = "amr"

\* the BNData objects createBarneyScalarField makes and never releases
UnreleasedData(kind) == IF kind = "unstructured" THEN 5 ELSE 0

\* how a call that executes undefined behaviour ends: 0 = the process dies,
\* 1, 2 = it goes on with one of two garbage values
UBOutcomes == {0, 1, 2}

\* SpatialField::cleanup, as the new <<m_bnField, backend>>
cleanup(bnField, backend) ==
    IF bnField # 0
    THEN <<0, [backend EXCEPT ![bnField].released = @ + 1]>>
    ELSE <<bnField, backend>>

\* what the SpatialField destructor does to <<m_bnField, backend>>
Destructor(bnField, backend) == <<bnField, backend>>

\* the variables of a part of the program that is not running
wc_Idle ==
    /\ wc_pc = "idle" /\ wc_t = Fin(0)
    /\ wc_tRange = [lower |-> Fin(0), upper |-> Fin(0)]
    /\ wc_tRange0 = wc_tRange
    /\ wc_majorant = Fin(0) /\ wc_sample = Vec4Zero /\ wc_ret = "none"
    /\ wc_steps = 0 /\ wc_f = Fin(0) /\ wc_at = Fin(0)

sf_Idle ==
    /\ sf_kind = "none" /\ sf_life = "none" /\ sf_m = <<>> /\ sf_bnField = 0
    /\ sf_backend = <<>> /\ sf_msgs = <<>> /\ sf_fin = "none"
    /\ sf_last = Last("none", 0, FALSE, FALSE) /\ sf_ub = FALSE
    /\ sf_params = <<>> /\ sf_dirty = FALSE

sm_Idle ==
    /\ sm_kind = "none" /\ sm_cfg = <<>> /\ sm_P = <<0, 0, 0>>
    /\ sm_pc = "idle" /\ sm_ret = 0 /\ sm_fetches = 0

ms_Idle ==
    /\ ms_life = "none" /\ ms_numLogical = 0 /\ ms_devices = <<>>
    /\ ms_perLogical = <<>> /\ ms_rtc = <<>> /\ ms_instances = <<>>
    /\ ms_last = "none"

te_Idle ==
    /\ te_activeModels = <<>> /\ te_models = <<>> /\ te_mutex = 0
    /\ te_pc = <<>> /\ te_id = <<>> /\ te_owed = <<>>
    /\ te_unmatched = FALSE

is_Idle ==
    /\ is_life = "none" /\ is_sf = 0 /\ is_accel = <<>> /\ is_last = "none"

db_Idle ==
    /\ db_life = "none" /\ db_ptr = 0 /\ db_bytes = 0 /\ db_mem = <<>>
    /\ db_oob = FALSE /\ db_last = "none"

dn_Idle ==
    /\ dn_life = "none" /\ dn_p = <<>> /\ dn_mem = <<>> /\ dn_pixelBuffer = 0
    /\ dn_format = 0 /\ dn_last = "none"

bf_Idle ==
    /\ bf_pc = "none" /\ bf_accumID = 0 /\ bf_blendFactor = <<0, 1>>
    /\ bf_valid = FALSE

\* A call of Woodcock::sampleRange with its arguments; no spatial field exists
wc_Init ==
    /\ wc_pc = "call"
    /\ wc_t = Fin(0)
    /\ wc_tRange \in [lower : Lowers, upper : Uppers]
    /\ wc_tRange0 = wc_tRange
    /\ wc_majorant \in Majorants
    /\ wc_sample = Vec4Zero
    /\ wc_ret = "none"
    /\ wc_steps = 0
    /\ wc_f = Fin(0)
    /\ wc_at = Fin(0)
    /\ sf_Idle /\ sm_Idle /\ ms_Idle /\ te_Idle /\ is_Idle /\ db_Idle /\ dn_Idle /\ bf_Idle

\* SpatialField::createInstance(subtype); no sampleRange call is in progress
sf_Init ==
    /\ sf_kind \in Kinds
    /\ sf_life = "new"
    /\ sf_m = NewMembers(sf_kind)
    /\ sf_params = UnsetParams(sf_kind)
    /\ sf_bnField = 0
    /\ sf_backend = <<>>
    /\ sf_msgs = <<>>
    /\ sf_fin = "none"
    /\ sf_last = Last("new", 0, FALSE, FALSE)
    /\ sf_ub = FALSE
    /\ sf_dirty = FALSE
    /\ wc_Idle /\ sm_Idle /\ ms_Idle /\ te_Idle /\ is_Idle /\ db_Idle /\ dn_Idle /\ bf_Idle

\* A call of a planet or cloud sampler on a configured field and a point
sm_Init ==
    /\ sm_kind \in {"planet", "cloud"}
    /\ sm_cfg \in (IF sm_kind = "planet" THEN PlanetConfigs ELSE CloudConfigs)
    /\ sm_P \in SamplePoints
    /\ sm_pc = "call" /\ sm_ret = 0 /\ sm_fetches = 0
    /\ wc_Idle /\ sf_Idle /\ ms_Idle /\ te_Idle /\ is_Idle /\ db_Idle /\ dn_Idle /\ bf_Idle

sm_Next ==
    \/ \E elevation \in TexVals, ubo \in UBOutcomes :
           PlanetSampler_sample(elevation, ubo)
    \/ \E density \in TexVals, nanClamp \in NaNClamps, ubo \in UBOutcomes :
           CloudSampler_sample(density, nanClamp, ubo)

\* ModelSlot::ModelSlot on a DevGroup
ms_Init ==
    /\ ms_life = "live"
    /\ ms_numLogical \in 1..MaxLogical
    /\ ms_devices \in DevGroups(ms_numLogical)
    /\ ms_perLogical = ModelSlot_perLogical(ms_numLogical)
    /\ ms_rtc = <<>>
    /\ ms_instances = <<>>
    /\ ms_last = "new"
    /\ wc_Idle /\ sf_Idle /\ sm_Idle /\ te_Idle /\ is_Idle /\ db_Idle /\ dn_Idle /\ bf_Idle

ms_Next ==
    \/ \E groups \in InstanceLists : ModelSlot_setInstances(groups)
    \/ \E nulls \in SUBSET (1..Len(ms_devices)) : ModelSlot_build(nulls)
    \/ \E i \in 1..Len(ms_devices) : syncPipelineAndSBT(i)

\* The client leaves the parameter store as p and commits:
\* <Subtype>::commitParameters
commitParameters(p, ubo) ==
    /\ sf_life \in {"new", "live"}
    /\ LET nullData == sf_kind = "structuredRegular" /\ p.data = Null
           dims == IF sf_kind # "structuredRegular" THEN V3(0, 0, 0)
                   ELSE IF nullData THEN GarbageDims[Max(ubo, 1)]
                   ELSE p.data[1].size
           m == CASE sf_kind = "structuredRegular" -> StructuredCommit(sf_m, p, dims)
                  [] sf_kind = "unstructured" -> UnstructuredCommit(sf_m, p)
                  [] sf_kind = "amr" -> AmrCommit(sf_m, p)
                  [] sf_kind = "planet" -> PlanetCommit(p)
                  [] sf_kind = "cloud" -> CloudCommit(p)
           released == IF sf_kind = "cloud" /\ CloudChanged(sf_m, m)
                       THEN cleanup(sf_bnField, sf_backend)
                       ELSE <<sf_bnField, sf_backend>>
       IN  /\ nullData \/ ubo = 1
           /\ sf_params' = p
           /\ sf_last' = Last("commit", 0, FALSE, FALSE)
           /\ sf_ub' = (sf_ub \/ nullData)
           /\ IF nullData /\ ubo = 0
              THEN /\ sf_life' = "crashed"
                   /\ UNCHANGED <<sf_m, sf_bnField, sf_backend, sf_dirty>>
              ELSE /\ sf_life' = "live"
                   /\ sf_m' = m
                   /\ sf_bnField' = released[1]
                   /\ sf_backend' = released[2]
                   /\ sf_dirty' = TRUE
    /\ UNCHANGED <<sf_kind, sf_msgs, sf_fin>>
    /\ UNCHANGED <<wc_vars, sm_vars, ms_vars, te_vars, is_vars, db_vars, dn_vars, bf_vars>>

\* <Subtype>::finalize, run on the members of the latest commitParameters
finalize(ubo) ==
    /\ sf_life = "live"
    /\ LET badReads == /\ sf_kind = "amr"
                       /\ sf_m.blockBounds # Null /\ sf_m.blockLevel # Null
                       /\ sf_m.blockData # Null
                       /\ \/ AmrReadsBad(sf_m)
                          \/ AmrOverflows(sf_m, AmrGarbage[Max(ubo, 1)])
           r == CASE sf_kind = "structuredRegular" -> StructuredFinalize(sf_m)
                  [] sf_kind = "unstructured" -> UnstructuredFinalize(sf_m)
                  [] sf_kind = "amr" -> AmrFinalize(sf_m, AmrGarbage[Max(ubo, 1)])
                  [] sf_kind \in {"planet", "cloud"} -> <<sf_m, <<>>, "completed">>
       IN  /\ badReads \/ ubo = 1
           /\ sf_last' = Last("finalize", 0, FALSE, FALSE)
           /\ sf_ub' = (sf_ub \/ badReads)
           /\ IF badReads /\ ubo = 0
              THEN /\ sf_life' = "crashed"
                   /\ UNCHANGED <<sf_m, sf_msgs, sf_fin, sf_dirty>>
              ELSE /\ sf_m' = r[1]
                   /\ sf_msgs' = r[2]
                   /\ sf_fin' = r[3]
                   /\ sf_dirty' = FALSE
                   /\ UNCHANGED sf_life
    /\ UNCHANGED <<sf_kind, sf_bnField, sf_backend, sf_params>>
    /\ UNCHANGED <<wc_vars, sm_vars, ms_vars, te_vars, is_vars, db_vars, dn_vars, bf_vars>>

\* SpatialField::getBarneyScalarField, called once the latest commit has
\* been finalized
getBarneyScalarField(ubo) ==
    /\ sf_life = "live"
    /\ ~sf_dirty
    /\ sf_fin # "none"
    /\ LET create == isValid(sf_kind, sf_m) /\ sf_bnField = 0
           nullDeref == /\ create /\ sf_kind = "unstructured"
                        /\ UnstructuredCreateDerefsNull(sf_m)
           throws == /\ create /\ sf_kind = "structuredRegular"
                     /\ ~StructuredTypeImplemented(sf_m)
           exits == create /\ CreateExits(sf_kind)
           dies == nullDeref /\ ubo = 0
           made == create /\ ~throws /\ ~exits /\ ~dies
       IN  /\ nullDeref \/ ubo = 1
           /\ made => Len(sf_backend) < MaxHandles
           /\ sf_ub' = (sf_ub \/ nullDeref)
           /\ sf_life' = IF dies THEN "crashed" ELSE IF exits THEN "exited" ELSE "live"
           /\ sf_backend' =
                  IF made
                  THEN Append(sf_backend,
                              BackendField(sf_kind, CreateInputs(sf_kind, sf_m),
                                           UnreleasedData(sf_kind)))
                  ELSE sf_backend
           /\ sf_bnField' = IF made THEN Len(sf_backend) + 1 ELSE sf_bnField
           /\ sf_last' = Last("get",
                              IF ~isValid(sf_kind, sf_m) \/ throws \/ exits \/ dies
                              THEN 0 ELSE sf_bnField',
                              create, throws)
    /\ UNCHANGED <<sf_kind, sf_m, sf_msgs, sf_fin, sf_params, sf_dirty>>
    /\ UNCHANGED <<wc_vars, sm_vars, ms_vars, te_vars, is_vars, db_vars, dn_vars, bf_vars>>

\* SpatialField::~SpatialField
destroy ==
    /\ sf_life \in {"new", "live"}
    /\ sf_life' = "destroyed"
    /\ sf_bnField' = Destructor(sf_bnField, sf_backend)[1]
    /\ sf_backend' = Destructor(sf_bnField, sf_backend)[2]
    /\ sf_last' = Last("destroy", 0, FALSE, FALSE)
    /\ UNCHANGED <<sf_kind, sf_m, sf_msgs, sf_fin, sf_ub, sf_params, sf_dirty>>
    /\ UNCHANGED <<wc_vars, sm_vars, ms_vars, te_vars, is_vars, db_vars, dn_vars, bf_vars>>

sf_Next ==
    \/ \E p \in Stores(sf_kind), ubo \in UBOutcomes : commitParameters(p, ubo)
    \/ \E ubo \in UBOutcomes : finalize(ubo)
    \/ \E ubo \in UBOutcomes : getBarneyScalarField(ubo)
    \/ destroy

(***************************************************************************)
(* Specifications                                                          *)
(***************************************************************************)
SpecWoodcock ==
    /\ wc_Init
    /\ [][wc_Next]_vars

SpecField ==
    /\ sf_Init
    /\ [][sf_Next]_vars

SpecSampler ==
    /\ sm_Init
    /\ [][sm_Next]_vars

SpecModelSlot ==
    /\ ms_Init
    /\ [][ms_Next]_vars

(***************************************************************************)
(* Tether: the reference-counted models shared by the frames of a context. *)
(* activeModels maps a uniqueID to a pair (first = count, second = the     *)
(* shared TetheredModel); both operations hold Tether::mutex for their     *)
(* whole body.                                                             *)
(***************************************************************************)
Threads == {1, 2}
ModelIDs == {1, 2}
MaxRefs == 2
MaxModels == 3
MaxUnmatched == 1

\* what activeModels[uniqueID] inserts for a key the map does not hold: a
\* value-initialised pair, count 0 and a null pointer
NoEntry == [present |-> FALSE, first |-> 0, second |-> 0]

\* releaseModel with the entry left in the map after the count reached 0
Tether_releaseModel_NoErase(am, models, uniqueID) ==
    LET tm == am[uniqueID]
        first == tm.first - 1
    IN  [am |-> [am EXCEPT ![uniqueID] =
                    [present |-> TRUE, first |-> first, second |-> tm.second]],
         models |-> IF first = 0 /\ tm.second # 0
                    THEN [models EXCEPT ![tm.second].released = @ + 1]
                    ELSE models]

\* Tether::getAndRefModel between taking and dropping the lock: the map after
\* the call, the models of the backend, and the TetheredModel returned
Tether_getAndRefModel(am, models, uniqueID) ==
    LET pair == am[uniqueID]
        create == pair.second = 0
        models1 == IF create
                   THEN Append(models, [id |-> uniqueID, released |-> 0])
                   ELSE models
        second == IF create THEN Len(models1) ELSE pair.second
    IN  [am |-> [am EXCEPT ![uniqueID] =
                    [present |-> TRUE, first |-> pair.first + 1,
                     second |-> second]],
         models |-> models1,
         ret |-> second]

\* Tether::releaseModel between taking and dropping the lock.  The count only
\* reaches 0 from 1, and an entry with count 1 always has its TetheredModel,
\* so tm.second->model is never read through a null pointer.
Tether_releaseModel(am, models, uniqueID) ==
    LET tm == am[uniqueID]
        first == tm.first - 1
    IN  IF first = 0
        THEN [am |-> [am EXCEPT ![uniqueID] = NoEntry],
              models |-> IF tm.second # 0
                         THEN [models EXCEPT ![tm.second].released = @ + 1]
                         ELSE models]
        ELSE [am |-> [am EXCEPT ![uniqueID] =
                         [present |-> TRUE, first |-> first,
                          second |-> tm.second]],
              models |-> models]

\* A tether with its context and no model yet; every thread is between calls
te_Init ==
    /\ te_activeModels = [i \in ModelIDs |-> NoEntry]
    /\ te_models = <<>>
    /\ te_mutex = 0
    /\ te_pc = [t \in Threads |-> "idle"]
    /\ te_id = [t \in Threads |-> 1]
    /\ te_owed = [i \in ModelIDs |-> 0]
    /\ te_unmatched = FALSE
    /\ wc_Idle /\ sf_Idle /\ sm_Idle /\ ms_Idle /\ is_Idle /\ db_Idle /\ dn_Idle /\ bf_Idle

\* a thread calls getAndRefModel(uniqueID) and waits for the mutex
getAndRefModel_call(t, uniqueID) ==
    /\ te_pc[t] = "idle"
    /\ te_owed[uniqueID] < MaxRefs
    /\ Len(te_models) < MaxModels
    /\ te_pc' = [te_pc EXCEPT ![t] = "get"]
    /\ te_id' = [te_id EXCEPT ![t] = uniqueID]
    /\ UNCHANGED <<te_activeModels, te_models, te_mutex, te_owed, te_unmatched>>
    /\ UNCHANGED <<wc_vars, sf_vars, sm_vars, ms_vars, is_vars, db_vars, dn_vars, bf_vars>>

\* a thread calls releaseModel(uniqueID) and waits for the mutex; the call
\* gives back a reference some earlier getAndRefModel(uniqueID) returned, or
\* it is unmatched
releaseModel_call(t, uniqueID) ==
    /\ te_pc[t] = "idle"
    /\ te_owed[uniqueID] = 0 =>
           te_activeModels[uniqueID].first > 0 - MaxUnmatched
    /\ te_pc' = [te_pc EXCEPT ![t] = "release"]
    /\ te_id' = [te_id EXCEPT ![t] = uniqueID]
    /\ te_owed' = [te_owed EXCEPT ![uniqueID] = Max(@ - 1, 0)]
    /\ te_unmatched' = (te_unmatched \/ te_owed[uniqueID] = 0)
    /\ UNCHANGED <<te_activeModels, te_models, te_mutex>>
    /\ UNCHANGED <<wc_vars, sf_vars, sm_vars, ms_vars, is_vars, db_vars, dn_vars, bf_vars>>

\* std::lock_guard<std::mutex> lock(mutex): one waiting thread gets the mutex
lock_guard(t) ==
    /\ te_pc[t] \in {"get", "release"}
    /\ te_mutex = 0
    /\ te_mutex' = t
    /\ te_pc' = [te_pc EXCEPT ![t] = IF @ = "get" THEN "inGet" ELSE "inRelease"]
    /\ UNCHANGED <<te_activeModels, te_models, te_id, te_owed, te_unmatched>>
    /\ UNCHANGED <<wc_vars, sf_vars, sm_vars, ms_vars, is_vars, db_vars, dn_vars, bf_vars>>

\* the body of getAndRefModel, and the lock dropped on return
getAndRefModel(t) ==
    /\ te_pc[t] = "inGet" /\ te_mutex = t
    /\ LET r == Tether_getAndRefModel(te_activeModels, te_models, te_id[t])
       IN  /\ te_activeModels' = r.am
           /\ te_models' = r.models
    /\ te_owed' = [te_owed EXCEPT ![te_id[t]] = @ + 1]
    /\ te_mutex' = 0
    /\ te_pc' = [te_pc EXCEPT ![t] = "idle"]
    /\ te_id' = [te_id EXCEPT ![t] = 1]
    /\ UNCHANGED te_unmatched
    /\ UNCHANGED <<wc_vars, sf_vars, sm_vars, ms_vars, is_vars, db_vars, dn_vars, bf_vars>>

\* the body of releaseModel, and the lock dropped on return
releaseModel(t) ==
    /\ te_pc[t] = "inRelease" /\ te_mutex = t
    /\ LET r == Tether_releaseModel(te_activeModels, te_models, te_id[t])
       IN  /\ te_activeModels' = r.am
           /\ te_models' = r.models
    /\ te_mutex' = 0
    /\ te_pc' = [te_pc EXCEPT ![t] = "idle"]
    /\ te_id' = [te_id EXCEPT ![t] = 1]
    /\ UNCHANGED <<te_owed, te_unmatched>>
    /\ UNCHANGED <<wc_vars, sf_vars, sm_vars, ms_vars, is_vars, db_vars, dn_vars, bf_vars>>

te_Next ==
    \E t \in Threads :
        \/ \E uniqueID \in ModelIDs : getAndRefModel_call(t, uniqueID)
        \/ \E uniqueID \in ModelIDs : releaseModel_call(t, uniqueID)
        \/ lock_guard(t)
        \/ getAndRefModel(t)
        \/ releaseModel(t)

SpecTether ==
    /\ te_Init
    /\ [][te_Next]_vars

(***************************************************************************)
(* IsoSurface: a geometry that owns a scalar field and the accel built     *)
(* for it.                                                                 *)
(***************************************************************************)
ScalarFields == {1, 2}
Members == {"scalarField", "isoValues"}
MaxBuilds == 6

\* Geometry::setObject, the base class's handling of a member: it knows
\* neither of the members an IsoSurface is given here
Geometry_setObject(member) == FALSE

\* ScalarField::createIsoAccel(isoSurface): a new accel for the field sf
createIsoAccel(sf) == [createdBy |-> sf, builds |-> 0]

\* IsoSurfaceAccel::build
Accel_build(accel) == [accel EXCEPT !.builds = @ + 1]

IsoLast(op, ret, built) == [op |-> op, ret |-> ret, built |-> built]

\* A new IsoSurface: no scalar field, no accel
is_Init ==
    /\ is_life = "live"
    /\ is_sf = 0
    /\ is_accel = Null
    /\ is_last = IsoLast("new", FALSE, FALSE)
    /\ wc_Idle /\ sf_Idle /\ sm_Idle /\ ms_Idle /\ te_Idle /\ db_Idle /\ dn_Idle /\ bf_Idle

\* IsoSurface::setObject(member, value); value = 0 is a null Object::SP,
\* through which value->as<ScalarField>() is undefined behaviour
IsoSurface_setObject(member, value, ubo) ==
    /\ is_life = "live"
    /\ LET handled == Geometry_setObject(member)
           nullDeref == ~handled /\ member = "scalarField" /\ value = 0
       IN  /\ nullDeref \/ ubo = 1
           /\ is_life' = IF nullDeref /\ ubo = 0 THEN "crashed" ELSE "live"
           /\ is_sf' = IF ~handled /\ member = "scalarField"
                          /\ ~(nullDeref /\ ubo = 0)
                       THEN value ELSE is_sf
           /\ is_last' = IsoLast("setObject",
                                 handled \/ member = "scalarField", FALSE)
    /\ UNCHANGED is_accel
    /\ UNCHANGED <<wc_vars, sf_vars, sm_vars, ms_vars, te_vars, db_vars, dn_vars, bf_vars>>

\* IsoSurface::commit
IsoSurface_commit ==
    /\ is_life = "live"
    /\ is_accel # Null => is_accel[1].builds < MaxBuilds
    /\ IF is_sf = 0
       THEN /\ is_accel' = is_accel
            /\ is_last' = IsoLast("commit", FALSE, FALSE)
       ELSE /\ is_accel' = Some(Accel_build(IF is_accel = Null
                                            THEN createIsoAccel(is_sf)
                                            ELSE is_accel[1]))
            /\ is_last' = IsoLast("commit", FALSE, TRUE)
    /\ UNCHANGED <<is_life, is_sf>>
    /\ UNCHANGED <<wc_vars, sf_vars, sm_vars, ms_vars, te_vars, db_vars, dn_vars, bf_vars>>

\* IsoSurface::build
IsoSurface_build ==
    /\ is_life = "live"
    /\ is_accel # Null => is_accel[1].builds < MaxBuilds
    /\ IF is_accel = Null
       THEN /\ is_accel' = is_accel
            /\ is_last' = IsoLast("build", FALSE, FALSE)
       ELSE /\ is_accel' = Some(Accel_build(is_accel[1]))
            /\ is_last' = IsoLast("build", FALSE, TRUE)
    /\ UNCHANGED <<is_life, is_sf>>
    /\ UNCHANGED <<wc_vars, sf_vars, sm_vars, ms_vars, te_vars, db_vars, dn_vars, bf_vars>>

is_Next ==
    \/ \E member \in Members, value \in ScalarFields \cup {0},
          ubo \in UBOutcomes : IsoSurface_setObject(member, value, ubo)
    \/ IsoSurface_commit
    \/ IsoSurface_build

SpecIsoSurface ==
    /\ is_Init
    /\ [][is_Next]_vars

(***************************************************************************)
(* rtc::optix::DeviceBuffer: one device allocation, grown on demand.       *)
(* size_t is scaled to SizeBits bits; T is a type of SizeofT bytes.  A     *)
(* failing BARNEY_CUDA_CALL throws; cudaMalloc leaves the pointer alone    *)
(* when it fails.                                                          *)
(***************************************************************************)
SizeBits == 4
MaxAllocs == 3
SizeofT == 2

WrapSize(n) == n % (2 ^ SizeBits)

\* the element counts and byte offsets the calls are given
NumElements == {0, 1, 2, 2 ^ (SizeBits - 1) + 1}
ByteOffsets == {0, 3, 2 ^ SizeBits - 2}

\* BARNEY_CUDA_CALL(x): whether a failing call throws
CudaCallThrows == TRUE

\* DeviceBuffer::bytesof<T>
bytesof(numElements) == WrapSize(SizeofT * numElements)

\* DeviceBuffer::reset: the new m_ptr, m_bytes and device memory
DeviceBuffer_reset(ptr, bytes, mem) ==
    [ ptr |-> 0, bytes |-> 0,
      mem |-> IF ptr # 0 THEN [mem EXCEPT ![ptr].freed = @ + 1] ELSE mem ]

\* DeviceBuffer::alloc; mallocOk is whether cudaMalloc succeeds
DeviceBuffer_alloc(ptr, bytes, mem, numBytes, mallocOk) ==
    LET r == DeviceBuffer_reset(ptr, bytes, mem)
    IN  IF mallocOk
        THEN [ ptr |-> Len(r.mem) + 1, bytes |-> numBytes,
               mem |-> Append(r.mem, [bytes |-> numBytes, freed |-> 0]),
               threw |-> FALSE ]
        ELSE [ ptr |-> r.ptr,
               bytes |-> IF CudaCallThrows THEN r.bytes ELSE numBytes,
               mem |-> r.mem, threw |-> CudaCallThrows ]

DbLast(op, numElements, byteOffsetStart, threw) ==
    [ op |-> op, n |-> numElements, offset |-> byteOffsetStart,
      threw |-> threw ]

\* A default-constructed DeviceBuffer
db_Init ==
    /\ db_life = "live"
    /\ db_ptr = 0
    /\ db_bytes = 0
    /\ db_mem = <<>>
    /\ db_oob = FALSE
    /\ db_last = DbLast("new", 0, 0, FALSE)
    /\ wc_Idle /\ sf_Idle /\ sm_Idle /\ ms_Idle /\ te_Idle /\ is_Idle /\ dn_Idle /\ bf_Idle

\* DeviceBuffer::upload(src, numElements, byteOffsetStart); mallocOk and
\* memcpyOk are whether cudaMalloc and cudaMemcpy succeed
DeviceBuffer_upload(numElements, byteOffsetStart, mallocOk, memcpyOk) ==
    /\ db_life = "live"
    /\ LET neededBytes == WrapSize(bytesof(numElements) + byteOffsetStart)
           grow == numElements # 0 /\ neededBytes > db_bytes
           a == IF grow
                THEN DeviceBuffer_alloc(db_ptr, db_bytes, db_mem, neededBytes,
                                        mallocOk)
                ELSE [ ptr |-> db_ptr, bytes |-> db_bytes, mem |-> db_mem,
                       threw |-> FALSE ]
           copies == numElements # 0 /\ ~a.threw
           outside == copies /\ byteOffsetStart + bytesof(numElements) > a.bytes
       IN  /\ grow \/ mallocOk
           /\ copies \/ memcpyOk
           /\ grow /\ mallocOk => Len(db_mem) < MaxAllocs
           /\ db_ptr' = a.ptr
           /\ db_bytes' = a.bytes
           /\ db_mem' = a.mem
           /\ db_oob' = (db_oob \/ (outside /\ memcpyOk))
           /\ db_last' = DbLast("upload", numElements, byteOffsetStart,
                                a.threw \/ (copies /\ ~memcpyOk /\ CudaCallThrows))
    /\ UNCHANGED db_life
    /\ UNCHANGED <<wc_vars, sf_vars, sm_vars, ms_vars, te_vars, is_vars, dn_vars, bf_vars>>

\* DeviceBuffer::download(dst, numElements, byteOffsetStart)
DeviceBuffer_download(numElements, byteOffsetStart, memcpyOk) ==
    /\ db_life = "live"
    /\ LET requestedBytes == bytesof(numElements)
           empty == numElements # 0 /\ db_ptr = 0
           tooMuch == /\ numElements # 0 /\ ~empty
                      /\ WrapSize(requestedBytes + byteOffsetStart) > db_bytes
           copies == numElements # 0 /\ ~empty /\ ~tooMuch
           outside == copies /\ byteOffsetStart + requestedBytes > db_bytes
       IN  /\ copies \/ memcpyOk
           /\ db_oob' = (db_oob \/ (outside /\ memcpyOk))
           /\ db_last' = DbLast("download", numElements, byteOffsetStart,
                                empty \/ tooMuch
                                \/ (copies /\ ~memcpyOk /\ CudaCallThrows))
    /\ UNCHANGED <<db_life, db_ptr, db_bytes, db_mem>>
    /\ UNCHANGED <<wc_vars, sf_vars, sm_vars, ms_vars, te_vars, is_vars, dn_vars, bf_vars>>

\* DeviceBuffer::reserve(numBytes)
DeviceBuffer_reserve(numBytes, mallocOk) ==
    /\ db_life = "live"
    /\ LET grow == numBytes > db_bytes
           a == IF grow
                THEN DeviceBuffer_alloc(db_ptr, db_bytes, db_mem, numBytes,
                                        mallocOk)
                ELSE [ ptr |-> db_ptr, bytes |-> db_bytes, mem |-> db_mem,
                       threw |-> FALSE ]
       IN  /\ grow \/ mallocOk
           /\ grow /\ mallocOk => Len(db_mem) < MaxAllocs
           /\ db_ptr' = a.ptr
           /\ db_bytes' = a.bytes
           /\ db_mem' = a.mem
           /\ db_last' = DbLast("reserve", 0, numBytes, a.threw)
    /\ UNCHANGED <<db_life, db_oob>>
    /\ UNCHANGED <<wc_vars, sf_vars, sm_vars, ms_vars, te_vars, is_vars, dn_vars, bf_vars>>

\* DeviceBuffer::reset()
DeviceBuffer_resetCall ==
    /\ db_life = "live"
    /\ LET r == DeviceBuffer_reset(db_ptr, db_bytes, db_mem)
       IN  /\ db_ptr' = r.ptr
           /\ db_bytes' = r.bytes
           /\ db_mem' = r.mem
    /\ db_last' = DbLast("reset", 0, 0, FALSE)
    /\ UNCHANGED <<db_life, db_oob>>
    /\ UNCHANGED <<wc_vars, sf_vars, sm_vars, ms_vars, te_vars, is_vars, dn_vars, bf_vars>>

\* DeviceBuffer::~DeviceBuffer
DeviceBuffer_destroy ==
    /\ db_life = "live"
    /\ LET r == DeviceBuffer_reset(db_ptr, db_bytes, db_mem)
       IN  /\ db_ptr' = r.ptr
           /\ db_bytes' = r.bytes
           /\ db_mem' = r.mem
    /\ db_life' = "destroyed"
    /\ db_last' = DbLast("destroy", 0, 0, FALSE)
    /\ UNCHANGED db_oob
    /\ UNCHANGED <<wc_vars, sf_vars, sm_vars, ms_vars, te_vars, is_vars, dn_vars, bf_vars>>

db_Next ==
    \/ \E n \in NumElements, o \in ByteOffsets, mallocOk, memcpyOk \in BOOLEAN :
          DeviceBuffer_upload(n, o, mallocOk, memcpyOk)
    \/ \E n \in NumElements, o \in ByteOffsets, memcpyOk \in BOOLEAN :
          DeviceBuffer_download(n, o, memcpyOk)
    \/ \E numBytes \in ByteOffsets, mallocOk \in BOOLEAN :
          DeviceBuffer_reserve(numBytes, mallocOk)
    \/ DeviceBuffer_resetCall
    \/ DeviceBuffer_destroy

SpecDeviceBuffer ==
    /\ db_Init
    /\ [][db_Next]_vars

(***************************************************************************)
(* rtc::optix::Optix8Denoiser: the device buffers of the denoiser.  A      *)
(* failing cudaMalloc throws and leaves its pointer as it was; cudaFree    *)
(* succeeds.                                                               *)
(***************************************************************************)
FLOAT4 == 1
MaxDenoiserAllocs == 10

Buffers ==
    {"denoiserScratch", "denoiserState", "in_rgba", "out_rgba", "in_normal",
     "m_uintPixels"}
PixelFormats == {FLOAT4, 2}

\* a Free that leaves the pointer in place
DnFree_KeepsPointer(s, f) ==
    IF s.p[f] # 0
    THEN [p |-> s.p, mem |-> [s.mem EXCEPT ![s.p[f]].freed = @ + 1]]
    ELSE s

\* if (ptr) { Free(ptr); ptr = 0; } on the pointers and device memory s
DnFree(s, f) ==
    IF s.p[f] # 0
    THEN [p |-> [s.p EXCEPT ![f] = 0],
          mem |-> [s.mem EXCEPT ![s.p[f]].freed = @ + 1]]
    ELSE s

\* a Malloc(&ptr, ...) that succeeds
DnMalloc(s, f) ==
    [p |-> [s.p EXCEPT ![f] = Len(s.mem) + 1],
     mem |-> Append(s.mem, [freed |-> 0])]

\* Optix8Denoiser::cleanup
Denoiser_cleanup(s) ==
    DnFree(DnFree(DnFree(DnFree(DnFree(DnFree(s, "denoiserScratch"),
        "denoiserState"), "in_rgba"), "out_rgba"), "in_normal"), "m_uintPixels")

\* Optix8Denoiser::setup from the allocations on; fail is the allocation
\* that fails (0: none): <<pointers and memory, threw>>
Denoiser_setup(s, format, fail) ==
    LET s1 == DnFree(s, "denoiserState")
        s2 == DnMalloc(s1, "denoiserState")
        s3 == DnFree(s2, "denoiserScratch")
        s4 == DnMalloc(s3, "denoiserScratch")
        s5 == DnFree(s4, "m_uintPixels")
        s6 == DnMalloc(s5, "m_uintPixels")
    IN  CASE fail = 1 -> <<s1, TRUE>>
          [] fail = 2 -> <<DnFree(s3, "denoiserState"), TRUE>>
          [] fail = 3 /\ format # FLOAT4 ->
                 <<DnFree(DnFree(s5, "denoiserState"), "denoiserScratch"), TRUE>>
          [] fail = 0 /\ format # FLOAT4 -> <<s6, FALSE>>
          [] OTHER -> <<s4, FALSE>>

\* the allocations of the resize that has no pixel buffer, in their order
ResizeOrder ==
    <<"denoiserScratch", "denoiserState", "in_rgba", "out_rgba", "in_normal">>

RECURSIVE ResizeMallocs(_, _, _)
ResizeMallocs(s, k, fail) ==
    IF k > Len(ResizeOrder) THEN <<s, FALSE>>
    ELSE IF k = fail THEN <<s, TRUE>>
    ELSE ResizeMallocs(DnMalloc(s, ResizeOrder[k]), k + 1, fail)

\* Optix8Denoiser::resize without a pixel buffer: <<pointers and memory, threw>>
Denoiser_resize(s, fail) ==
    ResizeMallocs(DnFree(DnFree(DnFree(DnFree(DnFree(s, "denoiserScratch"),
                      "denoiserState"), "in_rgba"), "out_rgba"), "in_normal"),
                  1, fail)

DnLast(op, threw, fail) == [op |-> op, threw |-> threw, fail |-> fail]

\* A constructed Optix8Denoiser: all buffer pointers null
dn_Init ==
    /\ dn_life = "live"
    /\ dn_p = [f \in Buffers |-> 0]
    /\ dn_mem = <<>>
    /\ dn_pixelBuffer = 0
    /\ dn_format = 0
    /\ dn_last = DnLast("new", FALSE, 0)
    /\ wc_Idle /\ sf_Idle /\ sm_Idle /\ ms_Idle /\ te_Idle /\ is_Idle /\ db_Idle /\ bf_Idle

\* Optix8Denoiser::setup(size, pixelBuffer, format)
Optix8Denoiser_setup(pixelBuffer, format, fail) ==
    /\ dn_life = "live"
    /\ Len(dn_mem) < MaxDenoiserAllocs
    /\ fail = 3 => format # FLOAT4
    /\ LET r == Denoiser_setup([p |-> dn_p, mem |-> dn_mem], format, fail)
       IN  /\ dn_p' = r[1].p
           /\ dn_mem' = r[1].mem
           /\ dn_last' = DnLast("setup", r[2], fail)
    /\ dn_pixelBuffer' = pixelBuffer
    /\ dn_format' = format
    /\ UNCHANGED dn_life
    /\ UNCHANGED <<wc_vars, sf_vars, sm_vars, ms_vars, te_vars, is_vars, db_vars, bf_vars>>

\* Optix8Denoiser::resize(dims)
Optix8Denoiser_resize(fail) ==
    /\ dn_life = "live"
    /\ Len(dn_mem) < MaxDenoiserAllocs
    /\ dn_pixelBuffer # 0 => (fail <= 3 /\ (fail = 3 => dn_format # FLOAT4))
    /\ LET s == [p |-> dn_p, mem |-> dn_mem]
           r == IF dn_pixelBuffer # 0
                THEN Denoiser_setup(s, dn_format, fail)
                ELSE Denoiser_resize(s, fail)
       IN  /\ dn_p' = r[1].p
           /\ dn_mem' = r[1].mem
           /\ dn_last' = DnLast(IF dn_pixelBuffer # 0 THEN "setup" ELSE "resize",
                                r[2], fail)
    /\ UNCHANGED <<dn_life, dn_pixelBuffer, dn_format>>
    /\ UNCHANGED <<wc_vars, sf_vars, sm_vars, ms_vars, te_vars, is_vars, db_vars, bf_vars>>

\* Optix8Denoiser::cleanup()
Optix8Denoiser_cleanup ==
    /\ dn_life = "live"
    /\ LET r == Denoiser_cleanup([p |-> dn_p, mem |-> dn_mem])
       IN  dn_p' = r.p /\ dn_mem' = r.mem
    /\ dn_last' = DnLast("cleanup", FALSE, 0)
    /\ UNCHANGED <<dn_life, dn_pixelBuffer, dn_format>>
    /\ UNCHANGED <<wc_vars, sf_vars, sm_vars, ms_vars, te_vars, is_vars, db_vars, bf_vars>>

\* Optix8Denoiser::~Optix8Denoiser
Optix8Denoiser_destroy ==
    /\ dn_life = "live"
    /\ LET r == Denoiser_cleanup([p |-> dn_p, mem |-> dn_mem])
       IN  dn_p' = r.p /\ dn_mem' = r.mem
    /\ dn_life' = "destroyed"
    /\ dn_last' = DnLast("destroy", FALSE, 0)
    /\ UNCHANGED <<dn_pixelBuffer, dn_format>>
    /\ UNCHANGED <<wc_vars, sf_vars, sm_vars, ms_vars, te_vars, is_vars, db_vars, bf_vars>>

dn_Next ==
    \/ \E pixelBuffer \in {0, 1}, format \in PixelFormats, fail \in 0..3 :
          Optix8Denoiser_setup(pixelBuffer, format, fail)
    \/ \E fail \in 0..Len(ResizeOrder) : Optix8Denoiser_resize(fail)
    \/ Optix8Denoiser_cleanup
    \/ Optix8Denoiser_destroy

SpecDenoiser ==
    /\ dn_Init
    /\ [][dn_Next]_vars

(***************************************************************************)
(* denoiser::calculateBlendFactor and isValidBlendFactor.  A float that is *)
(* the quotient of two floats is kept as the fraction <<n, d>>, d > 0; the *)
(* accumIDs of the model are small enough for int -> float to be exact.    *)
(***************************************************************************)
MaxAccumID == 40
BLEND_FACTOR_OFFSET == 20
BLEND_FACTOR_MIN_ACCUM_ID == 0

AccumIDs == (0 - MaxAccumID)..MaxAccumID

\* n / d for floats n and d # 0, with the sign in the numerator
Quotient(n, d) == IF d < 0 THEN <<0 - n, 0 - d>> ELSE <<n, d>>

\* denoiser::isValidBlendFactor: blendFactor >= 0.0f && blendFactor <= 1.0f
isValidBlendFactor(blendFactor) ==
    blendFactor[1] >= 0 /\ blendFactor[1] <= blendFactor[2]

\* denoiser::calculateBlendFactor
calculateBlendFactor(accumID) ==
    IF accumID < BLEND_FACTOR_MIN_ACCUM_ID THEN <<0, 1>>
    ELSE Quotient(accumID - 1, accumID + BLEND_FACTOR_OFFSET)

\* A call of calculateBlendFactor with its argument
bf_Init ==
    /\ bf_pc = "call"
    /\ bf_accumID \in AccumIDs
    /\ bf_blendFactor = <<0, 1>>
    /\ bf_valid = FALSE
    /\ wc_Idle /\ sf_Idle /\ sm_Idle /\ ms_Idle /\ te_Idle /\ is_Idle
    /\ db_Idle /\ dn_Idle

\* the call returns its blend factor
bf_calculate ==
    /\ bf_pc = "call"
    /\ bf_blendFactor' = calculateBlendFactor(bf_accumID)
    /\ bf_pc' = "calculated"
    /\ UNCHANGED <<bf_accumID, bf_valid>>
    /\ UNCHANGED <<wc_vars, sf_vars, sm_vars, ms_vars, te_vars, is_vars, db_vars, dn_vars>>

\* the blend factor returned is passed to isValidBlendFactor
bf_validate ==
    /\ bf_pc = "calculated"
    /\ bf_valid' = isValidBlendFactor(bf_blendFactor)
    /\ bf_pc' = "validated"
    /\ UNCHANGED <<bf_accumID, bf_blendFactor>>
    /\ UNCHANGED <<wc_vars, sf_vars, sm_vars, ms_vars, te_vars, is_vars, db_vars, dn_vars>>

bf_Next ==
    \/ bf_calculate
    \/ bf_validate

SpecBlendFactor ==
    /\ bf_Init
    /\ [][bf_Next]_vars

(***************************************************************************)
(* Claims                                                                  *)
(***************************************************************************)
\* the object has been committed and its latest commit finalized
Finalized == sf_life = "live" /\ ~sf_dirty /\ sf_fin # "none"

\* C1: sampleRange called with a majorant <= 0 short-circuits: it has
\* returned after at most one round of the loop, it never returns true (an
\* interaction), and it leaves tRange as the caller passed it.
C1_NonPositiveMajorantShortCircuits ==
    FGe(Fin(0), wc_majorant) =>
        /\ wc_ret # "true"
        /\ wc_tRange = wc_tRange0
        /\ (wc_steps >= 1 => wc_pc = "ret")

\* C2: with a positive majorant, a NaN scalar sample is mapped to the zero
\* vector by sampleAndMap and sampleRange does not return true on it,
\* whatever rand() returns.
C2_NaNSampleNeverAccepted ==
    (FLt(Fin(0), wc_majorant) /\ wc_steps >= 1 /\ IsNaN(wc_f)) =>
        /\ wc_sample = Vec4Zero
        /\ wc_ret # "true"

\* C3: for every field variant, after any sequence of commitParameters and
\* finalize calls, bounds() is finite and non-degenerate if and only if
\* isValid() is true.
C3_BoundsNonDegenerateIffValid ==
    Finalized =>
        (FiniteNonDegenerate(bounds(sf_kind, sf_m)) <=> isValid(sf_kind, sf_m))

\* C4: whenever the most recent finalize of a field was rejected by
\* validation, bounds() returns the empty box, also when an earlier finalize
\* of the same object computed non-empty bounds.
C4_RejectedFinalizeGivesEmptyBounds ==
    (Finalized /\ sf_fin = "rejected") => IsEmptyBox(bounds(sf_kind, sf_m))

C7_MissingDataOnlyWarns ==
    ( /\ sf_kind = "structuredRegular"
      /\ sf_last.op \in {"commit", "finalize"}
      /\ sf_params.data = Null ) =>
        /\ ~sf_ub
        /\ sf_life = "live"
        /\ ~isValid(sf_kind, sf_m)
        /\ ( sf_last.op = "finalize" =>
               /\ sf_fin = "rejected"
               /\ sf_msgs # <<>>
               /\ \A i \in 1..Len(sf_msgs) : sf_msgs[i].severity = "WARNING" )

\* an unstructured field with every required array present, exactly one of
\* the two scalar arrays, and typed vertex positions
UnstructuredComplete(m) ==
    /\ m.vertexPosition # Null
    /\ m.vertexPosition[1].elementType = "FLOAT32_VEC3"
    /\ (m.vertexData = Null) # (m.cellData = Null)
    /\ m.index # Null /\ m.cellType # Null /\ m.cellBegin # Null

Has64BitIndices(m) ==
    \/ m.index[1].elementType = "UINT64"
    \/ m.cellBegin[1].elementType = "UINT64"

\* C8: an unstructured field whose index or cell.begin array has 64-bit
\* elements is rejected: finalize reports an error and stops, the field is
\* not valid afterwards, and createBarneyScalarField is not run on it.
C8_SixtyFourBitIndicesRejected ==
    ( /\ Finalized /\ sf_kind = "unstructured"
      /\ UnstructuredComplete(sf_m) /\ Has64BitIndices(sf_m) ) =>
        /\ \E i \in 1..Len(sf_msgs) : sf_msgs[i].severity = "ERROR"
        /\ sf_fin = "rejected"
        /\ ~isValid(sf_kind, sf_m)
        /\ (sf_last.op = "get" => ~sf_last.created /\ sf_last.ret = 0)

\* C9: for every field variant, the handle getBarneyScalarField returns was
\* built from the parameter values of the latest commit (a commit that
\* changes what createBarneyScalarField reads invalidates the cached handle).
C9_ReturnedHandleIsCurrent ==
    (sf_last.op = "get" /\ sf_last.ret # 0) =>
        sf_backend[sf_last.ret].from = CreateInputs(sf_kind, sf_m)

\* C10: after the destructor of a spatial field has run, every backend
\* scalar field getBarneyScalarField created for it has been released
\* exactly once.
C10_DestructorReleasesHandle ==
    sf_life = "destroyed" =>
        \A h \in 1..Len(sf_backend) : sf_backend[h].released = 1

\* C11: CloudSpatialField::commitParameters releases the cached backend
\* handle and sets it to null exactly when cloudData, planetRadius or
\* atmosphereThickness differs from the previous commit; otherwise the handle
\* and the backend are left as they were; and a getBarneyScalarField that
\* finds no cached handle creates a fresh, unreleased one.
C11_CloudCommitReleasesIffChanged ==
    [][ /\ (sf_kind = "cloud" /\ sf_last'.op = "commit") =>
              IF \/ sf_m'.m_cloudData # sf_m.m_cloudData
                 \/ sf_m'.m_planetRadius # sf_m.m_planetRadius
                 \/ sf_m'.m_atmosphereThickness # sf_m.m_atmosphereThickness
              THEN /\ sf_bnField' = 0
                   /\ Len(sf_backend') = Len(sf_backend)
                   /\ \A h \in 1..Len(sf_backend) :
                          sf_backend'[h].released =
                              sf_backend[h].released + (IF h = sf_bnField THEN 1 ELSE 0)
              ELSE sf_bnField' = sf_bnField /\ sf_backend' = sf_backend
        /\ (sf_kind = "cloud" /\ sf_last'.op = "get" /\ sf_bnField = 0) =>
              /\ sf_last'.created
              /\ sf_bnField' = Len(sf_backend) + 1
              /\ sf_last'.ret = sf_bnField'
              /\ sf_backend'[sf_bnField'].released = 0
              /\ sf_backend'[sf_bnField'].from = CreateInputs("cloud", sf_m)
      ]_vars

\* a cloud field whose first handle was released by a commit and whose next
\* getBarneyScalarField created a second one
C11_Witness ==
    /\ sf_kind = "cloud" /\ sf_last.op = "get" /\ sf_last.created
    /\ Len(sf_backend) = 2 /\ sf_backend[1].released = 1
    /\ sf_backend[2].released = 0 /\ sf_bnField = 2

\* the box [lower * 2^level, (upper+1) * 2^level] of one block, in exact
\* arithmetic, and the union of these boxes over blocks 1..i
ScaledBlockBox(b, level) ==
    [ lower |-> V3(b.lower[1] * 2 ^ level, b.lower[2] * 2 ^ level,
                   b.lower[3] * 2 ^ level),
      upper |-> V3((b.upper[1] + 1) * 2 ^ level, (b.upper[2] + 1) * 2 ^ level,
                   (b.upper[3] + 1) * 2 ^ level) ]

RECURSIVE UnionOfScaledBlocks(_, _, _)
UnionOfScaledBlocks(bs, ls, i) ==
    IF i = 0 THEN EmptyBox
    ELSE BoxExtend(UnionOfScaledBlocks(bs, ls, i - 1), ScaledBlockBox(bs[i], ls[i]))

\* the three per-block arrays are present, of equal length, without null block
AmrWellFormed(m) ==
    /\ m.blockBounds # Null /\ m.blockLevel # Null /\ m.blockData # Null
    /\ ~AmrReadsBad(m)

\* C12: after a successful finalize of an amr field, bounds() is the union
\* over all blocks of [lower * 2^level, (upper+1) * 2^level], also where the
\* int product does not fit.
C12_AmrBoundsIsUnionOfScaledBlocks ==
    (sf_kind = "amr" /\ Finalized /\ sf_fin = "completed" /\ AmrWellFormed(sf_m)) =>
        bounds("amr", sf_m) =
            UnionOfScaledBlocks(sf_m.blockBounds[1], sf_m.blockLevel[1],
                                Len(sf_m.blockData[1]))

\* C13: for a valid structuredRegular field, bounds() is the box from origin
\* to origin + (dims-1)*spacing per axis, with the dims of the committed data
\* array and the defaults (0,0,0) and (1,1,1) for an unset origin and
\* spacing; dims (2,2,2) with the defaults gives [(0,0,0),(1,1,1)].
C13_StructuredBoundsFormula ==
    (sf_kind = "structuredRegular" /\ sf_life = "live"
        /\ isValid(sf_kind, sf_m)) =>
        LET dims == sf_params.data[1].size
            origin == IF sf_params.origin = Null THEN <<0, 0, 0>>
                      ELSE sf_params.origin[1]
            spacing == IF sf_params.spacing = Null THEN <<1, 1, 1>>
                       ELSE sf_params.spacing[1]
            b == bounds(sf_kind, sf_m)
        IN  /\ ~b.e
            /\ b.lower = origin
            /\ \A k \in 1..3 : b.upper[k] = origin[k] + (dims[k] - 1) * spacing[k]
            /\ (dims = <<2, 2, 2>> /\ sf_params.origin = Null
                   /\ sf_params.spacing = Null) =>
                   (b.lower = <<0, 0, 0>> /\ b.upper = <<1, 1, 1>>)

\* a valid field of dims (2,2,2) with origin (1,0,0) and spacing (2,1,1),
\* committed after another store
C13_Witness ==
    /\ sf_kind = "structuredRegular" /\ Finalized /\ isValid(sf_kind, sf_m)
    /\ sf_params.data # Null /\ sf_params.data[1].size = <<2, 2, 2>>
    /\ sf_params.origin = Some(V3(1, 0, 0)) /\ sf_params.spacing = Some(V3(2, 1, 1))
    /\ bounds(sf_kind, sf_m).upper = <<3, 1, 1>>

\* the number of scalars of block i, and of blocks 1..i
BlockSize(bd, i) == bd[i][1].size[1] * bd[i][1].size[2] * bd[i][1].size[3]

RECURSIVE SumOfBlockSizes(_, _)
SumOfBlockSizes(bd, i) ==
    IF i = 0 THEN 0 ELSE SumOfBlockSizes(bd, i - 1) + BlockSize(bd, i)

\* C14: after every successful BlockStructuredField::finalize over n blocks,
\* a repeated one included, the flattened arrays are those of this finalize
\* alone: 6n bounds integers, n levels, n offsets with offset[i] the number
\* of scalars of the blocks before i, and as many scalars as the blocks hold.
C14_AmrFlattenedArraysConsistent ==
    (sf_kind = "amr" /\ Finalized /\ sf_fin = "completed" /\ AmrWellFormed(sf_m)) =>
        LET bd == sf_m.blockData[1]
            n == Len(bd)
        IN  /\ Len(sf_m.m_generatedBlockBounds) = 6 * n
            /\ Len(sf_m.m_generatedBlockLevels) = n
            /\ Len(sf_m.m_generatedBlockOffsets) = n
            /\ \A i \in 1..n :
                   /\ sf_m.m_generatedBlockOffsets[i] = SumOfBlockSizes(bd, i - 1)
                   /\ sf_m.m_generatedBlockLevels[i] = sf_m.blockLevel[1][i]
                   /\ sf_m.m_generatedBlockBounds[6 * (i - 1) + 1] =
                          sf_m.blockBounds[1][i].lower[1]
                   /\ sf_m.m_generatedBlockBounds[6 * i] =
                          sf_m.blockBounds[1][i].upper[3]
            /\ Len(sf_m.m_generatedBlockScalars) = SumOfBlockSizes(bd, n)

\* a two-block amr field, blocks at levels 1 and 0, after its finalize
C14_Witness ==
    /\ sf_kind = "amr" /\ Finalized /\ sf_fin = "completed" /\ AmrWellFormed(sf_m)
    /\ Len(sf_m.blockData[1]) = 2
    /\ sf_m.m_generatedBlockOffsets = <<0, 2>>
    /\ Len(sf_m.m_generatedBlockScalars) = 4
    /\ sf_m.m_bounds.upper[1] = 4

\* C15: planet and cloud fields are valid in every reachable state, with or
\* without their optional texture parameters: isValid() is true, no call
\* ends the process, and every getBarneyScalarField returns a live backend
\* handle of the field's type.
C15_PlanetAndCloudAlwaysValid ==
    sf_kind \in {"planet", "cloud"} =>
        /\ isValid(sf_kind, sf_m)
        /\ sf_life \in {"new", "live", "destroyed"}
        /\ sf_fin \in {"none", "completed"}
        /\ sf_last.op = "get" =>
               /\ sf_last.ret # 0 /\ sf_last.ret = sf_bnField /\ ~sf_last.threw
               /\ sf_backend[sf_last.ret].type = sf_kind
               /\ sf_backend[sf_last.ret].released = 0

\* a planet field without any texture map whose getBarneyScalarField has
\* created and returned a handle
C15_Witness ==
    /\ sf_kind = "planet" /\ sf_last.op = "get" /\ sf_last.created
    /\ sf_last.ret = 1
    /\ sf_m.m_elevationMap = Null /\ sf_m.m_diffuseMap = Null
    /\ sf_m.m_normalMap = Null

\* C16: PlanetSampler::DD::sample returns the inner-core density 0.02 for
\* every point closer than innerCoreRadius to the planet's configured sphere
\* centre, whatever the elevation map (or none), planetRadius and
\* elevationScale.
C16_InnerCoreDensityAroundCentre ==
    (sm_kind = "planet" /\ sm_pc = "done"
        /\ Length(V3Sub(sm_P, sm_cfg.sphereCenter)) < innerCoreRadius) =>
        sm_ret = 20

\* the distance of the sampled point from the configured centre of the cloud
\* sphere, and the region where the claim wants no density: inside the
\* sphere, or at or above the top of the atmosphere
CloudDist == Length(V3Sub(sm_P, sm_cfg.sphereCenter))
CloudZeroRegion ==
    \/ CloudDist < sm_cfg.sphereRadius
    \/ sm_cfg.maxHeight > 0 /\ CloudDist - sm_cfg.sphereRadius >= sm_cfg.maxHeight
    \/ sm_cfg.maxHeight = 0 /\ CloudDist > sm_cfg.sphereRadius

C18_PerDeviceSlotsNotAliased ==
    ms_life = "live" =>
        /\ Len(ms_perLogical) = ms_numLogical
        /\ \A i \in 1..Len(ms_devices) :
               /\ ms_devices[i].contextRank \in 0..(ms_numLogical - 1)
               /\ getPLD(ms_devices[i]) = ms_devices[i].contextRank + 1
               /\ \A j \in 1..Len(ms_devices) :
                      ms_devices[i].contextRank # ms_devices[j].contextRank =>
                          getPLD(ms_devices[i]) # getPLD(ms_devices[j])
               /\ LET h == ms_perLogical[getPLD(ms_devices[i])].instanceGroup
                  IN  h # 0 => ms_rtc[h].device = ms_devices[i].contextRank
        /\ ms_last = "build" =>
               \A i \in 1..Len(ms_devices) :
                   LET h == ms_perLogical[getPLD(ms_devices[i])].instanceGroup
                   IN  h # 0 => ms_rtc[h].freed = 0

\* two devices, the one of rank 1 first, each holding in its own slot the
\* instance group it built
C18_Witness ==
    /\ ms_life = "live" /\ ms_last = "build" /\ Len(ms_devices) = 2
    /\ ms_devices[1].contextRank = 1 /\ ms_devices[2].contextRank = 0
    /\ ms_perLogical[1].instanceGroup = 2 /\ ms_perLogical[2].instanceGroup = 1
    /\ ms_rtc[1].device = 1 /\ ms_rtc[2].device = 0

\* C19: for a positive majorant, when sampleRange returns true the accepted
\* t satisfies old tRange.lower <= t < old tRange.upper, tRange.upper is
\* that t, tRange.lower is unchanged and the sample returned is the one
\* taken at org + t*dir; when it returns false tRange is unchanged.
C19_AcceptedTWithinRange ==
    (wc_pc = "ret" /\ FGe(wc_majorant, Fin(1))) =>
        IF wc_ret = "true"
        THEN /\ FGe(wc_t, wc_tRange0.lower)
             /\ FLt(wc_t, wc_tRange0.upper)
             /\ wc_tRange.upper = wc_t
             /\ wc_tRange.lower = wc_tRange0.lower
             /\ wc_at = wc_t
             /\ wc_sample = sampleAndMap(wc_f)
        ELSE wc_ret = "false" /\ wc_tRange = wc_tRange0

\* an interaction accepted in the second round of the loop, past
\* tRange.lower, after a first sample was rejected
C19_Witness ==
    /\ wc_pc = "ret" /\ wc_ret = "true" /\ FGe(wc_majorant, Fin(1))
    /\ wc_steps = 2
    /\ FLt(wc_tRange0.lower, wc_t)
    /\ wc_tRange0.upper = Fin(8) /\ wc_tRange.upper = wc_t
    /\ ~IsNaN(wc_f)

\* C20: over any sequence of setInstances and build calls each device slot
\* holds at most one live instance group; every instance group build created
\* is freed exactly once when it is replaced or dropped, never twice, and no
\* slot keeps a freed group; and right after setInstances every device's
\* instanceGroup is null and its sbtDirty flag set.
C20_InstanceGroupsFreedOnce ==
    ms_life = "live" =>
        /\ \A h \in 1..Len(ms_rtc) :
               /\ ms_rtc[h].freed <= 1
               /\ ms_rtc[h].freed = 0 <=>
                      \E s \in 1..Len(ms_perLogical) : ms_perLogical[s].instanceGroup = h
               /\ \A g \in 1..Len(ms_rtc) :
                      (g # h /\ ms_rtc[g].freed = 0 /\ ms_rtc[h].freed = 0) =>
                          ms_rtc[g].device # ms_rtc[h].device
        /\ \A s \in 1..Len(ms_perLogical) :
               ms_perLogical[s].instanceGroup \in 0..Len(ms_rtc)
        /\ ms_last = "setInstances" =>
               \A i \in 1..Len(ms_devices) :
                   /\ ms_devices[i].sbtDirty
                   /\ ms_perLogical[getPLD(ms_devices[i])].instanceGroup = 0

\* a slot whose first group was replaced by a second build, the second
\* dropped by setInstances, and a third built and dropped again: all three
\* freed once, the devices dirty again after a sync
C20_Witness ==
    /\ ms_life = "live" /\ ms_last = "setInstances"
    /\ Len(ms_rtc) = 3
    /\ \A h \in 1..3 : ms_rtc[h].freed = 1 /\ ms_rtc[h].device = ms_rtc[1].device
    /\ ms_instances = <<0, 2>>

\* references to uniqueID that are outstanding: those handed out whose
\* release has not been called, and those whose release has not yet run
Outstanding(uniqueID) ==
    te_owed[uniqueID]
    + Cardinality({t \in Threads : /\ te_pc[t] \in {"release", "inRelease"}
                                   /\ te_id[t] = uniqueID})

\* the models made for uniqueID that bnRelease has not been called on
LiveModels(uniqueID) ==
    {k \in 1..Len(te_models) : /\ te_models[k].id = uniqueID
                               /\ te_models[k].released = 0}

\* C21: under any interleaving of getAndRefModel and releaseModel calls in
\* which every release follows a matching get for the same ID, an ID has an
\* entry in activeModels exactly while references to it are outstanding; the
\* entry counts those references and holds the one model made for the ID
\* that is not released (so none is released while a reference to it is
\* outstanding); no model is released twice.
C21_ModelLivesWhileReferenced ==
    ~te_unmatched =>
        /\ \A uniqueID \in ModelIDs :
              LET e == te_activeModels[uniqueID]
              IN  /\ e.present <=> Outstanding(uniqueID) > 0
                  /\ e.present => /\ e.first = Outstanding(uniqueID)
                                  /\ LiveModels(uniqueID) = {e.second}
                  /\ ~e.present => LiveModels(uniqueID) = {}
        /\ \A k \in 1..Len(te_models) : te_models[k].released <= 1

\* two references to the same ID's model are outstanding, after an earlier
\* model of that ID was released and its entry removed
C21_Witness ==
    /\ ~te_unmatched
    /\ \E uniqueID \in ModelIDs :
          /\ te_activeModels[uniqueID].first = 2
          /\ Outstanding(uniqueID) = 2
          /\ \E k \in 1..Len(te_models) : /\ te_models[k].id = uniqueID
                                          /\ te_models[k].released = 1

\* C22: after any sequence of getAndRefModel and releaseModel calls, a
\* release of an ID never acquired or already fully released included,
\* every entry of activeModels has a count of at least 1 and a model, and
\* every model not yet released is held by an entry.
C22_EntriesCountedAndNoLeak ==
    /\ \A uniqueID \in ModelIDs :
          te_activeModels[uniqueID].present =>
              /\ te_activeModels[uniqueID].first >= 1
              /\ te_activeModels[uniqueID].second # 0
    /\ \A k \in 1..Len(te_models) :
          te_models[k].released = 0 =>
              /\ te_activeModels[te_models[k].id].present
              /\ te_activeModels[te_models[k].id].second = k

\* C23: while a valid field has a cached handle, getBarneyScalarField
\* returns that handle without calling createBarneyScalarField; of two
\* calls with no invalidation between them at most one calls
\* createBarneyScalarField, and a call that does so finds no handle cached
\* and returns the fresh, unreleased handle it then caches; a step releases
\* a handle only if it is the cached one, then forgets it, and releases
\* nothing when none is cached; no handle is ever released twice.
C23_HandleCachedAndReleasedOnce ==
    [][ /\ ( /\ sf_last'.op = "get" /\ sf_life' = "live"
             /\ isValid(sf_kind, sf_m) /\ sf_bnField # 0 ) =>
               /\ ~sf_last'.created
               /\ sf_last'.ret = sf_bnField
               /\ sf_bnField' = sf_bnField
               /\ sf_backend' = sf_backend
        /\ ( /\ sf_last.op = "get" /\ sf_last.created
             /\ sf_last'.op = "get" /\ sf_life' = "live" ) =>
               /\ ~sf_last'.created
               /\ sf_last'.ret = sf_last.ret
        /\ (sf_last'.op = "get" /\ sf_last'.created /\ sf_life' = "live") =>
               /\ sf_bnField = 0
               /\ sf_bnField' = Len(sf_backend')
               /\ Len(sf_backend') = Len(sf_backend) + 1
               /\ sf_backend'[sf_bnField'].released = 0
               /\ sf_last'.ret = sf_bnField'
        /\ \A h \in 1..Len(sf_backend) :
               /\ sf_backend'[h].released <= 1
               /\ sf_backend'[h].released # sf_backend[h].released =>
                      /\ h = sf_bnField
                      /\ sf_bnField' = 0
                      /\ sf_backend'[h].released = sf_backend[h].released + 1
      ]_vars

C27_FinalizeReadsExistingBlocksOnly ==
    ( /\ sf_kind = "amr" /\ sf_last.op = "finalize"
      /\ sf_m.blockBounds # Null /\ sf_m.blockLevel # Null
      /\ sf_m.blockData # Null ) =>
        \A i \in 1..Len(sf_m.blockData[1]) : ~AmrBadRead(sf_m, i)

\* C25: a commit of an IsoSurface that has a scalar field builds an accel
\* created by that field, whatever setObject("scalarField", f) and commit
\* calls came before; a commit with no scalar field and a build with no
\* accel change nothing.
C25_CommitBuildsAccelOfCurrentField ==
    [][ /\ (is_last'.op = "commit" /\ is_sf # 0) =>
               /\ is_last'.built
               /\ is_accel' # Null
               /\ is_accel'[1].createdBy = is_sf
        /\ (is_last'.op = "commit" /\ is_sf = 0) =>
               /\ ~is_last'.built
               /\ UNCHANGED <<is_sf, is_accel>>
        /\ (is_last'.op = "build" /\ is_accel = Null) =>
               /\ ~is_last'.built
               /\ UNCHANGED <<is_sf, is_accel>>
      ]_vars

\* C26: for every device, the instance-ID list build passes to
\* createInstanceGroup is as long as that device's rtcGroups and
\* rtcTransforms lists, and its k-th entry is the index of the user instance
\* whose transform is rtcTransforms[k], i.e. the instance that produced
\* rtcGroups[k].
C26_InstIDsMatchEveryDevicesGroups ==
    ms_last = "build" =>
        \A s \in 1..Len(ms_perLogical) :
            LET h == ms_perLogical[s].instanceGroup
            IN  h # 0 =>
                    /\ Len(ms_rtc[h].inputInstIDs) = Len(ms_rtc[h].rtcGroups)
                    /\ Len(ms_rtc[h].inputInstIDs) = Len(ms_rtc[h].rtcTransforms)
                    /\ ms_rtc[h].inputInstIDs = ms_rtc[h].rtcTransforms

\* C28: after every DeviceBuffer call, failed allocations included, ptr() is
\* null exactly when bytes() is 0; after an upload of at least one element
\* that did not throw, bytes() >= offset + n * sizeof(T); and a download of
\* at least one element from an empty buffer, or of bytes beyond bytes(),
\* throws; no download changes the buffer.
C28_DeviceBufferSizeInvariants ==
    [][ /\ (db_ptr' = 0) <=> (db_bytes' = 0)
        /\ ( /\ db_last'.op = "upload" /\ db_last'.n >= 1
             /\ ~db_last'.threw ) =>
               db_bytes' >= db_last'.offset + db_last'.n * SizeofT
        /\ ( /\ db_last'.op = "download" /\ db_last'.n >= 1
             /\ \/ db_ptr = 0
                \/ db_last'.offset + db_last'.n * SizeofT > db_bytes ) =>
               db_last'.threw
        /\ db_last'.op = "download" =>
               UNCHANGED <<db_ptr, db_bytes, db_mem>>
      ]_vars

\* C29: after any sequence of setup, resize, cleanup and destruction, with
\* setup and resize failing in any of their allocations, each of the six
\* buffer pointers is null or refers to an allocation that has not been
\* freed, no two of them refer to the same allocation, no allocation has
\* been freed twice, every allocation not freed is still referred to by its
\* pointer, and after a setup that failed the pointers of the allocations it
\* had reached (state, then scratch, then pixel conversion) are null.
C29_DenoiserPointersNullOrLive ==
    dn_life # "none" =>
        /\ \A f \in Buffers : dn_p[f] # 0 => dn_mem[dn_p[f]].freed = 0
        /\ \A f, g \in Buffers : (f # g /\ dn_p[f] # 0) => dn_p[f] # dn_p[g]
        /\ \A a \in 1..Len(dn_mem) :
               /\ dn_mem[a].freed <= 1
               /\ dn_mem[a].freed = 0 => \E f \in Buffers : dn_p[f] = a
        /\ (dn_last.op = "setup" /\ dn_last.threw) =>
               /\ dn_p["denoiserState"] = 0
               /\ dn_last.fail >= 2 => dn_p["denoiserScratch"] = 0
               /\ dn_last.fail = 3 => dn_p["m_uintPixels"] = 0

\* a setup failed in its third allocation after an earlier setup and a
\* resize had succeeded: the buffers of both were freed once, and the image
\* buffers of the resize are still allocated
C29_Witness ==
    /\ dn_last.op = "setup" /\ dn_last.threw /\ dn_last.fail = 3
    /\ dn_p["in_rgba"] # 0 /\ dn_p["in_normal"] # 0
    /\ Len(dn_mem) >= 10
    /\ \E a \in 1..Len(dn_mem) : dn_mem[a].freed = 1

\* C30: for every accumID >= BLEND_FACTOR_MIN_ACCUM_ID the value
\* calculateBlendFactor returns, (accumID - 1) / (accumID +
\* BLEND_FACTOR_OFFSET), is a valid blend factor: isValidBlendFactor is true
\* of it, and it lies in [0, 1].
C30_BlendFactorValid ==
    (bf_pc = "validated" /\ bf_accumID >= BLEND_FACTOR_MIN_ACCUM_ID) =>
        /\ bf_blendFactor =
               Quotient(bf_accumID - 1, bf_accumID + BLEND_FACTOR_OFFSET)
        /\ bf_valid
        /\ 0 <= bf_blendFactor[1] /\ bf_blendFactor[1] <= bf_blendFactor[2]

=============================================================================
